---- MODULE Spec2Model ----
(***************************************************************************)
(* Model of thetagang_wheel: the sentiment labeller (sentiment.py) and the *)
(* ticker extractor with its symbol-master cache (tickers.py).             *)
(* Text is a TLA+ string; characters are its length-1 substrings, so the   *)
(* substring tests and the regular expressions of the source are computed  *)
(* character by character.                                                 *)
(***************************************************************************)
EXTENDS Integers, Sequences, FiniteSets, TLC

(***************************************************************************)
(* Characters and the str / re primitives the source uses.                 *)
(***************************************************************************)
UPPER == "ABCDEFGHIJKLMNOPQRSTUVWXYZ"
LOWER == "abcdefghijklmnopqrstuvwxyz"
DIGITS == "0123456789"

Ch(s, i) == SubSeq(s, i, i)
CharsOf(s) == {Ch(s, i) : i \in 1..Len(s)}
UpperSet == CharsOf(UPPER)
LowerSet == CharsOf(LOWER)
DigitSet == CharsOf(DIGITS)
LetterSet == UpperSet \cup LowerSet
\* \w of the re module (ASCII part): letters, digits and the underscore
WordSet == LetterSet \cup DigitSet \cup {"_"}

IndexIn(alphabet, c) == CHOOSE i \in 1..Len(alphabet) : Ch(alphabet, i) = c
char_lower(c) == IF c \in UpperSet THEN Ch(LOWER, IndexIn(UPPER, c)) ELSE c
char_upper(c) == IF c \in LowerSet THEN Ch(UPPER, IndexIn(LOWER, c)) ELSE c

RECURSIVE str_lower(_)
str_lower(s) == IF Len(s) = 0 THEN ""
                ELSE char_lower(Ch(s, 1)) \o str_lower(SubSeq(s, 2, Len(s)))

RECURSIVE str_upper(_)
str_upper(s) == IF Len(s) = 0 THEN ""
                ELSE char_upper(Ch(s, 1)) \o str_upper(SubSeq(s, 2, Len(s)))

\* the literal lit stands in text at position i
At(text, i, lit) ==
    /\ i >= 1
    /\ i + Len(lit) - 1 <= Len(text)
    /\ (Len(lit) = 0 \/ SubSeq(text, i, i + Len(lit) - 1) = lit)

DigitAt(text, i) == i >= 1 /\ i <= Len(text) /\ Ch(text, i) \in DigitSet

\* Python's `keyword in text`
str_contains(text, keyword) == \E i \in 1..(Len(text) + 1) : At(text, i, keyword)

\* `.` of the re module matches every character but the newline
NoNewline(text, from, to) == \A k \in from..to : Ch(text, k) # "\n"

\* sign \$\d+ anchored at i, e.g. \+\$\d+ and -\$\d+
SignDollarDigits(text, sign) ==
    \E i \in 1..Len(text) :
        At(text, i, sign \o "$") /\ DigitAt(text, i + Len(sign) + 1)

\* sign \d+ % , e.g. \+\d+% and -\d+%
SignDigitsPercent(text, sign) ==
    \E i \in 1..Len(text) :
        /\ At(text, i, sign)
        /\ \E j \in (i + Len(sign))..Len(text) :
              /\ \A k \in (i + Len(sign))..j : DigitAt(text, k)
              /\ At(text, j + 1, "%")

\* word .* sign \$? \d+ , e.g. profit.*\+\$?\d+ and lost.*\$?\d+ (empty sign)
WordThenAmount(text, word, sign) ==
    \E i \in 1..Len(text) :
        /\ At(text, i, word)
        /\ \E j \in (i + Len(word))..Len(text) :
              /\ NoNewline(text, i + Len(word), j - 1)
              /\ At(text, j, sign)
              /\ \/ DigitAt(text, j + Len(sign))
                 \/ /\ At(text, j + Len(sign), "$")
                    /\ DigitAt(text, j + Len(sign) + 1)

(***************************************************************************)
(* sentiment.py: keyword tables and pattern tables.                        *)
(***************************************************************************)
POSITIVE_KEYWORDS ==
    << "closed for profit", "took profit", "realized profit", "credit received",
       "assigned then cc profit", "assigned and sold calls", "profit taken",
       "closed profitably", "expired worthless", "kept premium", "full profit" >>

NEGATIVE_KEYWORDS ==
    << "closed for loss", "blew up", "debit to roll", "realized loss",
       "rolled for debit", "took a loss", "closed at loss", "assignment loss",
       "margin call", "stopped out" >>

UNCLEAR_KEYWORDS ==
    << "rolled", "holding", "open", "still open", "monitoring", "watching",
       "continuing to hold", "keeping position", "letting it ride" >>

\* re.search over each of PROFIT_PATTERNS
PROFIT_PATTERNS(text) ==
    \/ SignDollarDigits(text, "+")
    \/ SignDigitsPercent(text, "+")
    \/ str_contains(text, "p/l +")
    \/ WordThenAmount(text, "profit", "+")
    \/ WordThenAmount(text, "made", "+")
    \/ WordThenAmount(text, "gained", "+")

\* re.search over each of LOSS_PATTERNS
LOSS_PATTERNS(text) ==
    \/ SignDollarDigits(text, "-")
    \/ SignDigitsPercent(text, "-")
    \/ str_contains(text, "p/l -")
    \/ WordThenAmount(text, "loss", "-")
    \/ WordThenAmount(text, "lost", "")
    \/ WordThenAmount(text, "down", "")

AnyKeyword(keywords, text_lower) ==
    \E k \in 1..Len(keywords) : str_contains(text_lower, keywords[k])

_has_positive_outcome(text) ==
    LET text_lower == str_lower(text)
    IN  AnyKeyword(POSITIVE_KEYWORDS, text_lower) \/ PROFIT_PATTERNS(text_lower)

_has_negative_outcome(text) ==
    LET text_lower == str_lower(text)
    IN  AnyKeyword(NEGATIVE_KEYWORDS, text_lower) \/ LOSS_PATTERNS(text_lower)

_has_unclear_outcome(text) ==
    LET text_lower == str_lower(text)
    IN  AnyKeyword(UNCLEAR_KEYWORDS, text_lower)

(***************************************************************************)
(* tickers.py: candidate extraction.                                       *)
(***************************************************************************)
EXCLUDED_WORDS ==
    { "A", "I",
      "THE", "AND", "FOR", "ARE", "BUT", "NOT", "YOU", "ALL", "CAN", "HER", "WAS",
      "ONE", "OUR", "OUT", "DAY", "GET", "USE", "MAN", "NEW", "NOW", "OLD", "SEE",
      "HIM", "TWO", "HOW", "ITS", "WHO", "DID", "YES", "HIS", "HAS", "HAD", "LET",
      "PUT", "TOO", "WHY", "TRY", "SHE", "MAY", "SAY", "END", "WAY", "OWN", "BUY",
      "WIN", "RUN", "TOP", "GOT", "SET", "AGO", "LOT", "BAD", "BIG", "FEW", "OFF",
      "FAR", "ANY", "LOW", "HIGH", "GOOD", "WELL", "VERY", "MUCH", "LONG", "MADE",
      "OPEN", "CALL", "PUTS", "CASH", "RISK", "LOSS", "GAIN", "SELL", "HOLD",
      "ROLL", "WEEK", "YEAR", "TIME", "POOR", "RICH", "SAFE", "PLAY", "MOVE",
      "CSP", "CC", "CCS", "PCS", "ITM", "OTM", "ATM", "DTE", "IV", "ROI", "P&L",
      "SIDE", "BEST", "LAST", "NEXT", "HELP", "WORK", "TAKE", "MAKE", "GIVE",
      "TELL", "LOOK", "COME", "KNOW", "WANT", "NEED", "FEEL", "SEEM", "KEEP",
      "TURN", "SHOW", "FIND", "STOP", "WAIT", "STAY", "FALL", "RISE",
      "PUMP", "DUMP", "MOON", "BEAR", "BULL", "YOLO", "FOMO", "HODL", "BTFD",
      "EDIT", "TLDR", "IMHO", "IIRC" }

\* the {1,5} of both ticker patterns
MinTickerLen == 1
MaxTickerLen == 5

IsWordAt(text, i) == i >= 1 /\ i <= Len(text) /\ Ch(text, i) \in WordSet

\* \b between the characters at positions i and i+1
WordBoundary(text, i) == IsWordAt(text, i) # IsWordAt(text, i + 1)

\* lengths m for which text[start .. start+m-1] is in class{1,5} followed by \b
ClassRunLens(text, start, class) ==
    { m \in MinTickerLen..MaxTickerLen :
        /\ start + m - 1 <= Len(text)
        /\ \A k \in start..(start + m - 1) : Ch(text, k) \in class
        /\ WordBoundary(text, start + m - 1) }

MaxOf(S) == CHOOSE m \in S : \A n \in S : n <= m

\* CASHTAG_PATTERN.findall(text), scanning from position i: \$([A-Za-z]{1,5})\b
RECURSIVE CASHTAG_PATTERN(_, _)
CASHTAG_PATTERN(text, i) ==
    IF i > Len(text) THEN << >>
    ELSE LET lens == IF Ch(text, i) = "$"
                     THEN ClassRunLens(text, i + 1, LetterSet) ELSE {}
         IN  IF lens = {} THEN CASHTAG_PATTERN(text, i + 1)
             ELSE << SubSeq(text, i + 1, i + MaxOf(lens)) >>
                    \o CASHTAG_PATTERN(text, i + MaxOf(lens) + 1)

\* ALL_CAPS_PATTERN.findall(text), scanning from position i: \b([A-Z]{1,5})\b
RECURSIVE ALL_CAPS_PATTERN(_, _)
ALL_CAPS_PATTERN(text, i) ==
    IF i > Len(text) THEN << >>
    ELSE LET lens == IF WordBoundary(text, i - 1)
                     THEN ClassRunLens(text, i, UpperSet) ELSE {}
         IN  IF lens = {} THEN ALL_CAPS_PATTERN(text, i + 1)
             ELSE << SubSeq(text, i, i + MaxOf(lens) - 1) >>
                    \o ALL_CAPS_PATTERN(text, i + MaxOf(lens))

\* _extract_tickers_from_text without the EXCLUDED_WORDS test
_extract_tickers_from_text_unfiltered(text) ==
    LET cashtags == CASHTAG_PATTERN(text, 1)
        all_caps == ALL_CAPS_PATTERN(text, 1)
    IN  { str_upper(cashtags[k]) : k \in 1..Len(cashtags) }
        \cup { str_upper(all_caps[k]) : k \in 1..Len(all_caps) }

\* _extract_tickers_from_text adding each cashtag as written, without upper()
_extract_tickers_from_text_as_written(text) ==
    LET cashtags == CASHTAG_PATTERN(text, 1)
        all_caps == ALL_CAPS_PATTERN(text, 1)
    IN  { cashtags[k] : k \in 1..Len(cashtags) }
        \cup { str_upper(all_caps[k]) :
                 k \in { n \in 1..Len(all_caps) :
                           /\ all_caps[n] \notin EXCLUDED_WORDS
                           /\ Len(all_caps[n]) >= 1 } }

_extract_tickers_from_text(text) ==
    LET cashtags == CASHTAG_PATTERN(text, 1)
        all_caps == ALL_CAPS_PATTERN(text, 1)
    IN  { str_upper(cashtags[k]) : k \in 1..Len(cashtags) }
        \cup { str_upper(all_caps[k]) :
                 k \in { n \in 1..Len(all_caps) :
                           /\ all_caps[n] \notin EXCLUDED_WORDS
                           /\ Len(all_caps[n]) >= 1 } }

(***************************************************************************)
(* Python values: a post is a dict, modelled as a function from the keys   *)
(* it has to strings; None is the string "None".                           *)
(***************************************************************************)
None == "None"

\* dict.get(key, default)
dict_get(d, key, default) == IF key \in DOMAIN d THEN d[key] ELSE default

\* d.copy() followed by d[key] = value
dict_set(d, key, value) ==
    [k \in DOMAIN d \cup {key} |-> IF k = key THEN value ELSE d[k]]

\* f"{title} {selftext}" of label_post and extract_valid_tickers
full_text_of(post) ==
    dict_get(post, "title", "") \o " " \o dict_get(post, "selftext", "")

(***************************************************************************)
(* The statistical fallback.  The analyzer is nltk's; its compound score   *)
(* is kept in hundredths (0.2 is 20).  The lexicon below stands for the    *)
(* installed vader_lexicon: the score of a text is the clamped sum of the  *)
(* valences of the lexicon words it contains; a text with none scores 0.   *)
(***************************************************************************)
VADER_LEXICON ==
    << [word |-> "great", valence |-> 20],
       [word |-> "fine",  valence |-> 19],
       [word |-> "awful", valence |-> -20],
       [word |-> "meh",   valence |-> -19] >>

RECURSIVE LexiconSum(_, _)
LexiconSum(text_lower, k) ==
    IF k > Len(VADER_LEXICON) THEN 0
    ELSE (IF str_contains(text_lower, VADER_LEXICON[k].word)
          THEN VADER_LEXICON[k].valence ELSE 0) + LexiconSum(text_lower, k + 1)

Clamp(v, lo, hi) == IF v < lo THEN lo ELSE IF v > hi THEN hi ELSE v

\* analyzer.polarity_scores(full_text)['compound'], in hundredths
polarity_scores(text) == Clamp(LexiconSum(str_lower(text), 1), -100, 100)

\* compound >= 0.2 and compound <= -0.2, in hundredths
PositiveThreshold == 20
NegativeThreshold == -20

SentimentPosts ==
    { [id |-> "s1", title |-> "Closed TSLA puts for profit",
       selftext |-> "Took profit +$500 on the 220P"],
      [id |-> "s2", title |-> "My trade blew up",
       selftext |-> "Realized loss -$800 on NVDA puts"],
      [id |-> "s3", title |-> "Still holding position",
       selftext |-> "Rolled my puts to next week"],
      [id |-> "s4", title |-> "Great week +$50", selftext |-> "lost 20 on SPY"],
      [id |-> "s5", title |-> "Great: kept premium", selftext |-> "rolled for debit"],
      [id |-> "s6"],
      [id |-> "s7", title |-> "rolled for debit"],
      [id |-> "s8", selftext |-> "still open, kept premium"],
      [id |-> "s9", title |-> "awful day", selftext |-> ""],
      [id |-> "s10", title |-> "fine", selftext |-> "so so"],
      [id |-> "s11", title |-> "meh", selftext |-> "so so"] }

\* posts for the ticker extractor: the two of the test suite, one of
\* stop-list words, and one without a selftext
TickerPosts ==
    { [id |-> "t1", title |-> "My $AAPL trade update",
       selftext |-> "Sold AAPL puts for profit, also holding TSLA"],
      [id |-> "t2", title |-> "MSFT earnings play",
       selftext |-> "Bought $MSFT calls and INVALID_TICKER puts"],
      [id |-> "t3", title |-> "I PUT ALL in", selftext |-> "THE $PUT and $all YOLO on A"],
      [id |-> "t4", title |-> "$aapl $AAPL AAPL ZZZZ or $A"] }

\* the texts the posts of the model produce; the heuristics and the score of
\* each are tabulated once here instead of being recomputed in every state
Texts == { full_text_of(p) : p \in SentimentPosts \cup TickerPosts }

TextFacts ==
    [ text \in Texts |->
        [ has_positive |-> _has_positive_outcome(text),
          has_negative |-> _has_negative_outcome(text),
          has_unclear  |-> _has_unclear_outcome(text),
          compound     |-> polarity_scores(text),
          cashtags     |-> CASHTAG_PATTERN(text, 1),
          all_caps     |-> ALL_CAPS_PATTERN(text, 1),
          tickers      |-> _extract_tickers_from_text(text) ] ]

(***************************************************************************)
(* sentiment.py: the lazy analyzer singleton and the labeller.             *)
(* A vader state is [analyzer, on_disk, constructions, downloads]: the     *)
(* module global, whether the lexicon resource is installed, the analyzers *)
(* constructed so far and the downloads tried during the call.  net says   *)
(* whether nltk.download can fetch the lexicon during this call.           *)
(***************************************************************************)
\* _ensure_vader_downloaded that answers without an analyzer when the lexicon
\* cannot be had, instead of raising
_ensure_vader_downloaded_silent(st, net) ==
    IF st.analyzer # None
    THEN [st |-> st, raised |-> FALSE, downloaded |-> FALSE]
    ELSE IF st.on_disk
    THEN [st |-> [st EXCEPT !.analyzer = "SentimentIntensityAnalyzer",
                             !.constructions = @ + 1],
          raised |-> FALSE, downloaded |-> FALSE]
    ELSE IF net
         THEN [st |-> [st EXCEPT !.analyzer = "SentimentIntensityAnalyzer",
                                  !.on_disk = TRUE,
                                  !.constructions = @ + 1, !.downloads = @ + 1],
               raised |-> FALSE, downloaded |-> TRUE]
         ELSE [st |-> [st EXCEPT !.downloads = @ + 1],
               raised |-> FALSE, downloaded |-> FALSE]

\* _ensure_vader_downloaded without the `is not None` test
_ensure_vader_downloaded_no_singleton(st, net) ==
    IF st.on_disk
    THEN [st |-> [st EXCEPT !.analyzer = "SentimentIntensityAnalyzer",
                             !.constructions = @ + 1],
          raised |-> FALSE, downloaded |-> FALSE]
    ELSE IF net
         THEN [st |-> [st EXCEPT !.analyzer = "SentimentIntensityAnalyzer",
                                  !.on_disk = TRUE,
                                  !.constructions = @ + 1, !.downloads = @ + 1],
               raised |-> FALSE, downloaded |-> TRUE]
         ELSE [st |-> [st EXCEPT !.downloads = @ + 1],
               raised |-> TRUE, downloaded |-> FALSE]

\* st.constructions counts the analyzers constructed in the process,
\* st.downloads the nltk.download calls of the current call
_ensure_vader_downloaded(st, net) ==
    IF st.analyzer # None
    THEN [st |-> st, raised |-> FALSE, downloaded |-> FALSE]
    ELSE IF st.on_disk
    THEN [st |-> [st EXCEPT !.analyzer = "SentimentIntensityAnalyzer",
                             !.constructions = @ + 1],
          raised |-> FALSE, downloaded |-> FALSE]
    ELSE \* LookupError: nltk.download, then the constructor again
         IF net
         THEN [st |-> [st EXCEPT !.analyzer = "SentimentIntensityAnalyzer",
                                  !.on_disk = TRUE,
                                  !.constructions = @ + 1, !.downloads = @ + 1],
               raised |-> FALSE, downloaded |-> TRUE]
         ELSE [st |-> [st EXCEPT !.downloads = @ + 1],
               raised |-> TRUE, downloaded |-> FALSE]

\* label_post with conflicting evidence answered "unclear" on the spot
label_post_conflict_unclear(post, st, net) ==
    LET f == TextFacts[full_text_of(post)]
        heuristic(l) == [label |-> l, raised |-> FALSE, fallback |-> FALSE, st |-> st]
        e == _ensure_vader_downloaded(st, net)
    IN  IF f.has_positive /\ ~f.has_negative THEN heuristic("positive")
        ELSE IF f.has_negative /\ ~f.has_positive THEN heuristic("negative")
        ELSE IF f.has_unclear \/ (f.has_positive /\ f.has_negative) THEN heuristic("unclear")
        ELSE IF e.raised
             THEN [label |-> None, raised |-> TRUE, fallback |-> TRUE, st |-> e.st]
             ELSE [label |-> IF f.compound >= PositiveThreshold THEN "positive"
                             ELSE IF f.compound <= NegativeThreshold THEN "negative"
                             ELSE "unclear",
                   raised |-> FALSE, fallback |-> TRUE, st |-> e.st]

\* label_post with the unclear phrases tested before the outcome rules
label_post_unclear_first(post, st, net) ==
    LET f == TextFacts[full_text_of(post)]
        heuristic(l) == [label |-> l, raised |-> FALSE, fallback |-> FALSE, st |-> st]
        e == _ensure_vader_downloaded(st, net)
    IN  IF f.has_unclear THEN heuristic("unclear")
        ELSE IF f.has_positive /\ ~f.has_negative THEN heuristic("positive")
        ELSE IF f.has_negative /\ ~f.has_positive THEN heuristic("negative")
        ELSE IF e.raised
             THEN [label |-> None, raised |-> TRUE, fallback |-> TRUE, st |-> e.st]
             ELSE [label |-> IF f.compound >= PositiveThreshold THEN "positive"
                             ELSE IF f.compound <= NegativeThreshold THEN "negative"
                             ELSE "unclear",
                   raised |-> FALSE, fallback |-> TRUE, st |-> e.st]

\* label_post without the negative-only rule
label_post_no_negative_rule(post, st, net) ==
    LET f == TextFacts[full_text_of(post)]
        heuristic(l) == [label |-> l, raised |-> FALSE, fallback |-> FALSE, st |-> st]
        e == _ensure_vader_downloaded(st, net)
    IN  IF f.has_positive /\ ~f.has_negative THEN heuristic("positive")
        ELSE IF f.has_unclear THEN heuristic("unclear")
        ELSE IF e.raised
             THEN [label |-> None, raised |-> TRUE, fallback |-> TRUE, st |-> e.st]
             ELSE [label |-> IF f.compound >= PositiveThreshold THEN "positive"
                             ELSE IF f.compound <= NegativeThreshold THEN "negative"
                             ELSE "unclear",
                   raised |-> FALSE, fallback |-> TRUE, st |-> e.st]

\* label_post without the unclear-phrase rule
label_post_no_unclear_rule(post, st, net) ==
    LET f == TextFacts[full_text_of(post)]
        heuristic(l) == [label |-> l, raised |-> FALSE, fallback |-> FALSE, st |-> st]
        e == _ensure_vader_downloaded(st, net)
    IN  IF f.has_positive /\ ~f.has_negative THEN heuristic("positive")
        ELSE IF f.has_negative /\ ~f.has_positive THEN heuristic("negative")
        ELSE IF e.raised
             THEN [label |-> None, raised |-> TRUE, fallback |-> TRUE, st |-> e.st]
             ELSE [label |-> IF f.compound >= PositiveThreshold THEN "positive"
                             ELSE IF f.compound <= NegativeThreshold THEN "negative"
                             ELSE "unclear",
                   raised |-> FALSE, fallback |-> TRUE, st |-> e.st]

\* label_post with compound > 0.2 and compound < -0.2
label_post_strict_thresholds(post, st, net) ==
    LET f == TextFacts[full_text_of(post)]
        heuristic(l) == [label |-> l, raised |-> FALSE, fallback |-> FALSE, st |-> st]
        e == _ensure_vader_downloaded(st, net)
    IN  IF f.has_positive /\ ~f.has_negative THEN heuristic("positive")
        ELSE IF f.has_negative /\ ~f.has_positive THEN heuristic("negative")
        ELSE IF f.has_unclear THEN heuristic("unclear")
        ELSE IF e.raised
             THEN [label |-> None, raised |-> TRUE, fallback |-> TRUE, st |-> e.st]
             ELSE [label |-> IF f.compound > PositiveThreshold THEN "positive"
                             ELSE IF f.compound < NegativeThreshold THEN "negative"
                             ELSE "unclear",
                   raised |-> FALSE, fallback |-> TRUE, st |-> e.st]

\* label_post reading post['title'] and post['selftext'] instead of post.get:
\* a post without one of the two keys raises KeyError
label_post_indexing(post, st, net) ==
    LET f == TextFacts[full_text_of(post)]
        heuristic(l) == [label |-> l, raised |-> FALSE, fallback |-> FALSE, st |-> st]
        e == _ensure_vader_downloaded(st, net)
    IN  IF "title" \notin DOMAIN post \/ "selftext" \notin DOMAIN post
        THEN [label |-> None, raised |-> TRUE, fallback |-> FALSE, st |-> st]
        ELSE IF f.has_positive /\ ~f.has_negative THEN heuristic("positive")
        ELSE IF f.has_negative /\ ~f.has_positive THEN heuristic("negative")
        ELSE IF f.has_unclear THEN heuristic("unclear")
        ELSE IF e.raised
             THEN [label |-> None, raised |-> TRUE, fallback |-> TRUE, st |-> e.st]
             ELSE [label |-> IF f.compound >= PositiveThreshold THEN "positive"
                             ELSE IF f.compound <= NegativeThreshold THEN "negative"
                             ELSE "unclear",
                   raised |-> FALSE, fallback |-> TRUE, st |-> e.st]

\* the result of one call: the label (None when the call raised), whether
\* it raised, whether the analyzer was consulted, and the vader state left
label_post(post, st, net) ==
    LET full_text    == full_text_of(post)
        has_positive == TextFacts[full_text].has_positive
        has_negative == TextFacts[full_text].has_negative
        has_unclear  == TextFacts[full_text].has_unclear
        heuristic(l) == [label |-> l, raised |-> FALSE, fallback |-> FALSE, st |-> st]
    IN  IF has_positive /\ ~has_negative THEN heuristic("positive")
        ELSE IF has_negative /\ ~has_positive THEN heuristic("negative")
        ELSE IF has_unclear THEN heuristic("unclear")
        ELSE LET e        == _ensure_vader_downloaded(st, net)
                 compound == TextFacts[full_text].compound
             IN  IF e.raised
                 THEN [label |-> None, raised |-> TRUE, fallback |-> TRUE, st |-> e.st]
                 ELSE [label |-> IF compound >= PositiveThreshold THEN "positive"
                                 ELSE IF compound <= NegativeThreshold THEN "negative"
                                 ELSE "unclear",
                       raised |-> FALSE, fallback |-> TRUE, st |-> e.st]

LABELS == {"positive", "negative", "unclear"}

\* the loop of both batch operations: label_post on posts[i..], threading
\* the vader state; the first call that raises ends the loop
Labelled(label, rest) ==
    [labels |-> << label >> \o rest.labels, raised |-> rest.raised, st |-> rest.st]

RECURSIVE LabelEach(_, _, _, _)
RECURSIVE LabelRest(_, _, _, _)
LabelEach(posts, i, st, net) ==
    IF i > Len(posts) THEN [labels |-> << >>, raised |-> FALSE, st |-> st]
    ELSE LabelRest(posts, i, label_post(posts[i], st, net), net)

\* r is what label_post returned for posts[i]
LabelRest(posts, i, r, net) ==
    IF r.raised THEN [labels |-> << >>, raised |-> TRUE, st |-> r.st]
    ELSE Labelled(r.label, LabelEach(posts, i + 1, r.st, net))

\* flags is [include_positive, include_negative, include_unclear]
Included(flags, label) ==
    \/ flags.include_positive /\ label = "positive"
    \/ flags.include_negative /\ label = "negative"
    \/ flags.include_unclear /\ label = "unclear"

RECURSIVE FilterLoop(_, _, _, _)
FilterLoop(posts, labels, flags, i) ==
    IF i > Len(posts) THEN << >>
    ELSE LET post_with_sentiment == dict_set(posts[i], "sentiment", labels[i])
         IN  (IF Included(flags, labels[i]) THEN << post_with_sentiment >> ELSE << >>)
             \o FilterLoop(posts, labels, flags, i + 1)

\* l is what the labelling loop returned
Returned(l, result) ==
    IF l.raised THEN [result |-> None, raised |-> TRUE, st |-> l.st]
    ELSE [result |-> result, raised |-> FALSE, st |-> l.st]

UnlabelledLoop(posts, labels, flags) ==
    LET kept == { i \in 1..Len(posts) : Included(flags, labels[i]) }
        nth(k) == CHOOSE i \in kept : Cardinality({ j \in kept : j <= i }) = k
    IN  [k \in 1..Cardinality(kept) |-> posts[nth(k)]]

FilterFrom(posts, flags, l) ==
    Returned(l, IF l.raised THEN None ELSE FilterLoop(posts, l.labels, flags, 1))

FilterFromUnlabelled(posts, flags, l) ==
    Returned(l, IF l.raised THEN None ELSE UnlabelledLoop(posts, l.labels, flags))

\* filter_posts_by_sentiment appending post instead of post_with_sentiment
filter_posts_by_sentiment_unlabelled(posts, flags, st, net) ==
    FilterFromUnlabelled(posts, flags, LabelEach(posts, 1, st, net))

filter_posts_by_sentiment(posts, flags, st, net) ==
    FilterFrom(posts, flags, LabelEach(posts, 1, st, net))

RECURSIVE DistributionLoop(_, _, _)
DistributionLoop(labels, i, distribution) ==
    IF i > Len(labels) THEN distribution
    ELSE DistributionLoop(labels, i + 1,
                          [distribution EXCEPT ![labels[i]] = @ + 1])

DistributionLoopNoUnclear(labels) ==
    [label \in LABELS |->
        IF label = "unclear" THEN 0
        ELSE Cardinality({ i \in 1..Len(labels) : labels[i] = label })]

DistributionFrom(l) ==
    Returned(l, IF l.raised THEN None
                ELSE DistributionLoop(l.labels, 1, [label \in LABELS |-> 0]))

DistributionFromNoUnclear(l) ==
    Returned(l, IF l.raised THEN None ELSE DistributionLoopNoUnclear(l.labels))

\* analyze_sentiment_distribution that never counts the label "unclear"
analyze_sentiment_distribution_no_unclear(posts, st, net) ==
    DistributionFromNoUnclear(LabelEach(posts, 1, st, net))

analyze_sentiment_distribution(posts, st, net) ==
    DistributionFrom(LabelEach(posts, 1, st, net))

(***************************************************************************)
(* tickers.py: the symbol-master cache.  Time is in hours.  A cached file  *)
(* is [exists, mtime, lines]; lines are the file's lines without their     *)
(* line terminators.                                                       *)
(***************************************************************************)
SOURCES == << "nasdaqlisted.txt", "otherlisted.txt" >>
NASDAQ_FILE == SOURCES[1]
OTHER_FILE == SOURCES[2]

\* max_age_hours of _is_symbol_file_fresh
MAX_AGE_HOURS == 24

AbsentFile == [exists |-> FALSE, mtime |-> 0, lines |-> << >>]

\* _is_symbol_file_fresh with file_age <= timedelta(hours=max_age_hours)
_is_symbol_file_fresh_inclusive(file, clock) ==
    IF ~file.exists THEN FALSE
    ELSE LET file_age == clock - file.mtime
         IN  file_age <= MAX_AGE_HOURS

\* _is_symbol_file_fresh with max_age_hours = 12
_is_symbol_file_fresh_half_day(file, clock) ==
    IF ~file.exists THEN FALSE
    ELSE LET file_age == clock - file.mtime
         IN  file_age < MAX_AGE_HOURS \div 2

_is_symbol_file_fresh(file, clock) ==
    IF ~file.exists THEN FALSE
    ELSE LET file_age == clock - file.mtime
         IN  file_age < MAX_AGE_HOURS

\* what the two URLs can serve
NasdaqFeeds ==
    { << "Symbol|Security Name|Market Category|Test Issue|Financial Status|Round Lot Size|ETF|NextShares",
         "AAPL|Apple Inc. - Common Stock|Q|N|N|100|N|N",
         "TSLA|Tesla, Inc. - Common Stock|Q|N|N|100|N|N",
         "File Creation Time: 1234567890" >>,
      << "Symbol|Security Name|Market Category|Test Issue|Financial Status|Round Lot Size|ETF|NextShares",
         "AAPL|Apple Inc. - Common Stock|Q|N|N|100|N|N",
         " msft |Microsoft Corporation - Common Stock|Q|N|N|100|N|N",
         "File Creation Time: 0913202421:32|||||||" >> }

OtherFeeds ==
    { << "ACT Symbol|Security Name|Exchange|CQS Symbol|ETF|Round Lot Size|Test Issue|NASDAQ Symbol",
         "A|Agilent Technologies, Inc. Common Stock|N|A|N|100|N|A",
         "ALL|Allstate Corporation (The) Common Stock|N|ALL|N|100|N|ALL",
         "File Creation Time: 1234567890" >>,
      << "ACT Symbol|Security Name|Exchange|CQS Symbol|ETF|Round Lot Size|Test Issue|NASDAQ Symbol",
         "SPY|SPDR S&P 500|P|SPY|Y|100|N|SPY",
         "File Creation Time: 0913202421:32|||||||" >> }

Feeds(filename) == IF filename = NASDAQ_FILE THEN NasdaqFeeds ELSE OtherFeeds

\* requests.get raised, or raise_for_status did
HTTP_ERROR == [ok |-> FALSE, text |-> << >>]

\* what requests.get / raise_for_status can do for one URL during one call
Responses(filename) ==
    { [ok |-> TRUE, text |-> feed] : feed \in Feeds(filename) } \cup {HTTP_ERROR}

\* _download_symbol_master opening the file for writing before the request:
\* a failed request leaves an empty file with a new modification time
_download_symbol_master_truncating(response, clock) ==
    IF ~response.ok
    THEN [raised |-> TRUE, written |-> TRUE,
          file |-> [exists |-> TRUE, mtime |-> clock, lines |-> << >>]]
    ELSE [raised |-> FALSE, written |-> TRUE,
          file |-> [exists |-> TRUE, mtime |-> clock, lines |-> response.text]]

_download_symbol_master(response, clock) ==
    IF ~response.ok
    THEN [raised |-> TRUE, written |-> FALSE, file |-> AbsentFile]
    ELSE [raised |-> FALSE, written |-> TRUE,
          file |-> [exists |-> TRUE, mtime |-> clock, lines |-> response.text]]

WHITESPACE == {" ", "\t", "\n", "\r"}

RECURSIVE str_lstrip(_)
str_lstrip(s) == IF Len(s) > 0 /\ Ch(s, 1) \in WHITESPACE
                 THEN str_lstrip(SubSeq(s, 2, Len(s))) ELSE s

RECURSIVE str_rstrip(_)
str_rstrip(s) == IF Len(s) > 0 /\ Ch(s, Len(s)) \in WHITESPACE
                 THEN str_rstrip(SubSeq(s, 1, Len(s) - 1)) ELSE s

str_strip(s) == str_rstrip(str_lstrip(s))

\* line.split('|')[0]
RECURSIVE FirstField(_, _)
FirstField(line, i) ==
    IF i > Len(line) \/ Ch(line, i) = "|" THEN SubSeq(line, 1, i - 1)
    ELSE FirstField(line, i + 1)

\* the body of one `with open(...)` block: the symbols the lines add
RECURSIVE ParseLines(_, _, _)
ParseLines(lines, header, i) ==
    IF i > Len(lines) THEN {}
    ELSE LET line   == lines[i]
             symbol == str_strip(FirstField(line, 1))
             rest   == ParseLines(lines, header, i + 1)
         IN  IF At(line, 1, header) THEN rest
             ELSE IF str_contains(line, "|")
                     /\ symbol # "" /\ symbol # "File Creation Time"
                  THEN {str_upper(symbol)} \cup rest
                  ELSE rest

HeaderOf(filename) == IF filename = NASDAQ_FILE THEN "Symbol|" ELSE "ACT Symbol|"

\* what reading one cached file does during one call: the whole file is
\* read, or open() or the iteration raises after lines_read lines
ReadOk == [ok |-> TRUE, lines_read |-> 0]
ReadError(k) == [ok |-> FALSE, lines_read |-> k]

\* most lines read before an error
MaxLinesRead == 2

\* open() raises, or the iteration does after MaxLinesRead lines
ReadOutcomes == {ReadOk, ReadError(0), ReadError(MaxLinesRead)}

\* the lines the `for line in f` loop gets to see
LinesRead(file, read) ==
    IF read.ok \/ read.lines_read >= Len(file.lines) THEN file.lines
    ELSE SubSeq(file.lines, 1, read.lines_read)

Prefixes(lines) == { SubSeq(lines, 1, k) : k \in 0..Len(lines) }

\* the parse of every content a cached file can have, tabulated once
ParsedSymbols ==
    [ filename \in {NASDAQ_FILE, OTHER_FILE} |->
        [ lines \in UNION { Prefixes(feed) : feed \in Feeds(filename) } |->
            ParseLines(lines, HeaderOf(filename), 1) ] ]

\* one `try: with open(...) ... except Exception` block: the symbols added
\* before the block ended
ParseFile(filename, file, read) == ParsedSymbols[filename][LinesRead(file, read)]

\* _load_symbol_masters with both files parsed inside one try block
_load_symbol_masters_single_try(files, clock, responses, reads) ==
    LET d1 == IF ~_is_symbol_file_fresh(files[NASDAQ_FILE], clock)
              THEN _download_symbol_master(responses[NASDAQ_FILE], clock)
              ELSE [raised |-> FALSE, written |-> FALSE, file |-> files[NASDAQ_FILE]]
        req1 == IF ~_is_symbol_file_fresh(files[NASDAQ_FILE], clock)
                THEN << NASDAQ_FILE >> ELSE << >>
        files1 == IF d1.written THEN [files EXCEPT ![NASDAQ_FILE] = d1.file] ELSE files
    IN  IF d1.raised
        THEN [raised |-> TRUE, failed |-> NASDAQ_FILE, requested |-> req1,
              files |-> files1, valid_symbols |-> None]
        ELSE
        LET d2 == IF ~_is_symbol_file_fresh(files1[OTHER_FILE], clock)
                  THEN _download_symbol_master(responses[OTHER_FILE], clock)
                  ELSE [raised |-> FALSE, written |-> FALSE, file |-> files1[OTHER_FILE]]
            req2 == IF ~_is_symbol_file_fresh(files1[OTHER_FILE], clock)
                    THEN req1 \o << OTHER_FILE >> ELSE req1
            files2 == IF d2.written THEN [files1 EXCEPT ![OTHER_FILE] = d2.file] ELSE files1
        IN  IF d2.raised
            THEN [raised |-> TRUE, failed |-> OTHER_FILE, requested |-> req2,
                  files |-> files2, valid_symbols |-> None]
            ELSE [raised |-> FALSE, failed |-> None, requested |-> req2,
                  files |-> files2,
                  valid_symbols |->
                      ParseFile(NASDAQ_FILE, files2[NASDAQ_FILE], reads[NASDAQ_FILE])
                      \cup (IF reads[NASDAQ_FILE].ok
                            THEN ParseFile(OTHER_FILE, files2[OTHER_FILE], reads[OTHER_FILE])
                            ELSE {})]

\* _load_symbol_masters that swallows a download error and parses what the
\* cache holds
_load_symbol_masters_degrading(files, clock, responses, reads) ==
    LET stale(f) == ~_is_symbol_file_fresh(files[f], clock)
        d(f) == _download_symbol_master(responses[f], clock)
        files2 == [f \in DOMAIN files |->
                     IF stale(f) /\ d(f).written THEN d(f).file ELSE files[f]]
        failures == { f \in DOMAIN files : stale(f) /\ d(f).raised }
    IN  [raised |-> FALSE,
         failed |-> IF NASDAQ_FILE \in failures THEN NASDAQ_FILE
                    ELSE IF OTHER_FILE \in failures THEN OTHER_FILE ELSE None,
         requested |-> (IF stale(NASDAQ_FILE) THEN << NASDAQ_FILE >> ELSE << >>)
                       \o (IF stale(OTHER_FILE) THEN << OTHER_FILE >> ELSE << >>),
         files |-> files2,
         valid_symbols |->
             ParseFile(NASDAQ_FILE, files2[NASDAQ_FILE], reads[NASDAQ_FILE])
             \cup ParseFile(OTHER_FILE, files2[OTHER_FILE], reads[OTHER_FILE])]

\* _load_symbol_masters that removes the cache when a download fails
_load_symbol_masters_invalidating(files, clock, responses, reads) ==
    LET d1 == IF ~_is_symbol_file_fresh(files[NASDAQ_FILE], clock)
              THEN _download_symbol_master(responses[NASDAQ_FILE], clock)
              ELSE [raised |-> FALSE, written |-> FALSE, file |-> files[NASDAQ_FILE]]
        req1 == IF ~_is_symbol_file_fresh(files[NASDAQ_FILE], clock)
                THEN << NASDAQ_FILE >> ELSE << >>
        files1 == IF d1.written THEN [files EXCEPT ![NASDAQ_FILE] = d1.file] ELSE files
        removed == [f \in DOMAIN files |-> AbsentFile]
    IN  IF d1.raised
        THEN [raised |-> TRUE, failed |-> NASDAQ_FILE, requested |-> req1,
              files |-> removed, valid_symbols |-> None]
        ELSE
        LET d2 == IF ~_is_symbol_file_fresh(files1[OTHER_FILE], clock)
                  THEN _download_symbol_master(responses[OTHER_FILE], clock)
                  ELSE [raised |-> FALSE, written |-> FALSE, file |-> files1[OTHER_FILE]]
            req2 == IF ~_is_symbol_file_fresh(files1[OTHER_FILE], clock)
                    THEN req1 \o << OTHER_FILE >> ELSE req1
            files2 == IF d2.written THEN [files1 EXCEPT ![OTHER_FILE] = d2.file] ELSE files1
        IN  IF d2.raised
            THEN [raised |-> TRUE, failed |-> OTHER_FILE, requested |-> req2,
                  files |-> removed, valid_symbols |-> None]
            ELSE [raised |-> FALSE, failed |-> None, requested |-> req2,
                  files |-> files2,
                  valid_symbols |->
                      ParseFile(NASDAQ_FILE, files2[NASDAQ_FILE], reads[NASDAQ_FILE])
                      \cup ParseFile(OTHER_FILE, files2[OTHER_FILE], reads[OTHER_FILE])]

\* files is the cache directory before the call, responses what each URL
\* would answer, reads what reading each cached file does.  requested lists
\* the files whose URL was requested.
_load_symbol_masters(files, clock, responses, reads) ==
    LET d1 == IF ~_is_symbol_file_fresh(files[NASDAQ_FILE], clock)
              THEN _download_symbol_master(responses[NASDAQ_FILE], clock)
              ELSE [raised |-> FALSE, written |-> FALSE, file |-> files[NASDAQ_FILE]]
        req1 == IF ~_is_symbol_file_fresh(files[NASDAQ_FILE], clock)
                THEN << NASDAQ_FILE >> ELSE << >>
        files1 == IF d1.written THEN [files EXCEPT ![NASDAQ_FILE] = d1.file] ELSE files
    IN  IF d1.raised
        THEN [raised |-> TRUE, failed |-> NASDAQ_FILE, requested |-> req1,
              files |-> files1, valid_symbols |-> None]
        ELSE
        LET d2 == IF ~_is_symbol_file_fresh(files1[OTHER_FILE], clock)
                  THEN _download_symbol_master(responses[OTHER_FILE], clock)
                  ELSE [raised |-> FALSE, written |-> FALSE, file |-> files1[OTHER_FILE]]
            req2 == IF ~_is_symbol_file_fresh(files1[OTHER_FILE], clock)
                    THEN req1 \o << OTHER_FILE >> ELSE req1
            files2 == IF d2.written THEN [files1 EXCEPT ![OTHER_FILE] = d2.file] ELSE files1
        IN  IF d2.raised
            THEN [raised |-> TRUE, failed |-> OTHER_FILE, requested |-> req2,
                  files |-> files2, valid_symbols |-> None]
            ELSE [raised |-> FALSE, failed |-> None, requested |-> req2,
                  files |-> files2,
                  valid_symbols |->
                      ParseFile(NASDAQ_FILE, files2[NASDAQ_FILE], reads[NASDAQ_FILE])
                      \cup ParseFile(OTHER_FILE, files2[OTHER_FILE], reads[OTHER_FILE])]

(***************************************************************************)
(* tickers.py: mention counting.  A dict whose order is not observed is a  *)
(* function from its keys; ticker_mentions is a defaultdict(int).          *)
(***************************************************************************)
EmptyDict == [k \in {} |-> 0]

\* ticker_mentions[ticker] = 1 instead of += 1
Increment_assigning(ticker_mentions, ticker) ==
    [k \in DOMAIN ticker_mentions \cup {ticker} |->
        IF k = ticker THEN 1 ELSE ticker_mentions[k]]

\* ticker_mentions[ticker] += 1
Increment(ticker_mentions, ticker) ==
    [k \in DOMAIN ticker_mentions \cup {ticker} |->
        IF k = ticker
        THEN (IF ticker \in DOMAIN ticker_mentions THEN ticker_mentions[ticker] ELSE 0) + 1
        ELSE ticker_mentions[k]]

\* for ticker in extracted_tickers: the set is walked in some order
RECURSIVE CountTickers(_, _, _)
CountTickers(extracted_tickers, valid_symbols, ticker_mentions) ==
    IF extracted_tickers = {} THEN ticker_mentions
    ELSE LET ticker == CHOOSE t \in extracted_tickers : TRUE
         IN  CountTickers(extracted_tickers \ {ticker}, valid_symbols,
                          IF ticker \in valid_symbols
                          THEN Increment(ticker_mentions, ticker)
                          ELSE ticker_mentions)

RECURSIVE CountPosts(_, _, _, _)
CountPosts(posts, i, valid_symbols, ticker_mentions) ==
    IF i > Len(posts) THEN ticker_mentions
    ELSE LET full_text == full_text_of(posts[i])
             extracted_tickers == TextFacts[full_text].tickers
         IN  CountPosts(posts, i + 1, valid_symbols,
                        CountTickers(extracted_tickers, valid_symbols, ticker_mentions))

\* counting every match of the two patterns instead of every distinct ticker
RECURSIVE CountPostsPerOccurrence(_, _, _, _)
CountPostsPerOccurrence(posts, i, valid_symbols, ticker_mentions) ==
    IF i > Len(posts) THEN ticker_mentions
    ELSE LET f == TextFacts[full_text_of(posts[i])]
             matches == f.cashtags \o f.all_caps
             counted == { str_upper(matches[k]) : k \in 1..Len(matches) } \cap f.tickers
             occurrences(t) == Cardinality({ k \in 1..Len(matches) : str_upper(matches[k]) = t })
             step(m) == [t \in DOMAIN m \cup (counted \cap valid_symbols) |->
                           (IF t \in DOMAIN m THEN m[t] ELSE 0)
                           + (IF t \in counted \cap valid_symbols THEN occurrences(t) ELSE 0)]
         IN  CountPostsPerOccurrence(posts, i + 1, valid_symbols, step(ticker_mentions))

extract_valid_tickers_per_occurrence(posts, files, clock, responses, reads) ==
    LET l == _load_symbol_masters(files, clock, responses, reads)
    IN  IF l.raised
        THEN [raised |-> TRUE, failed |-> l.failed, requested |-> l.requested,
              files |-> l.files, valid_symbols |-> None, result |-> None]
        ELSE [raised |-> FALSE, failed |-> None, requested |-> l.requested,
              files |-> l.files, valid_symbols |-> l.valid_symbols,
              result |-> CountPostsPerOccurrence(posts, 1, l.valid_symbols, EmptyDict)]

\* extract_valid_tickers without the `if ticker in valid_symbols` test
extract_valid_tickers_unvalidated(posts, files, clock, responses, reads) ==
    LET l == _load_symbol_masters(files, clock, responses, reads)
    IN  IF l.raised
        THEN [raised |-> TRUE, failed |-> l.failed, requested |-> l.requested,
              files |-> l.files, valid_symbols |-> None, result |-> None]
        ELSE [raised |-> FALSE, failed |-> None, requested |-> l.requested,
              files |-> l.files, valid_symbols |-> l.valid_symbols,
              result |-> CountPosts(posts, 1, STRING, EmptyDict)]

extract_valid_tickers(posts, files, clock, responses, reads) ==
    LET l == _load_symbol_masters(files, clock, responses, reads)
    IN  IF l.raised
        THEN [raised |-> TRUE, failed |-> l.failed, requested |-> l.requested,
              files |-> l.files, valid_symbols |-> None, result |-> None]
        ELSE [raised |-> FALSE, failed |-> None, requested |-> l.requested,
              files |-> l.files,
              valid_symbols |-> l.valid_symbols,
              result |-> CountPosts(posts, 1, l.valid_symbols, EmptyDict)]

(***************************************************************************)
(* tickers.py: get_top_tickers.  Here the order of the dict is observed:   *)
(* ticker_mentions.items() is the sequence of <<ticker, count>> pairs in   *)
(* insertion order.                                                        *)
(***************************************************************************)
\* one step of a stable descending sort: item goes behind every element
\* whose key is not smaller
RECURSIVE InsertDescending(_, _)
InsertDescending(sorted, item) ==
    IF Len(sorted) = 0 THEN << item >>
    ELSE IF Head(sorted)[2] >= item[2]
         THEN << Head(sorted) >> \o InsertDescending(Tail(sorted), item)
         ELSE << item >> \o sorted

\* sorted(items, key=lambda x: x[1], reverse=True): stable, equal counts
\* keep the order they have in items
RECURSIVE SortedDescending(_, _)
SortedDescending(items, n) ==
    IF n = 0 THEN << >>
    ELSE InsertDescending(SortedDescending(items, n - 1), items[n])

\* seq[:limit]
SliceTo(seq, limit) ==
    LET stop == IF limit < 0
                THEN (IF Len(seq) + limit < 0 THEN 0 ELSE Len(seq) + limit)
                ELSE (IF limit > Len(seq) THEN Len(seq) ELSE limit)
    IN  SubSeq(seq, 1, stop)

RECURSIVE Reversed(_)
Reversed(seq) == IF Len(seq) = 0 THEN << >> ELSE Reversed(Tail(seq)) \o << Head(seq) >>

RECURSIVE InsertAscending(_, _)
InsertAscending(sorted, item) ==
    IF Len(sorted) = 0 THEN << item >>
    ELSE IF Head(sorted)[2] <= item[2]
         THEN << Head(sorted) >> \o InsertAscending(Tail(sorted), item)
         ELSE << item >> \o sorted

RECURSIVE SortedAscending(_, _)
SortedAscending(items, n) ==
    IF n = 0 THEN << >>
    ELSE InsertAscending(SortedAscending(items, n - 1), items[n])

\* get_top_tickers as sorted(...)[::-1][:limit]: equal counts come out reversed
get_top_tickers_reversed(ticker_mentions, limit) ==
    SliceTo(Reversed(SortedAscending(ticker_mentions, Len(ticker_mentions))), limit)

get_top_tickers(ticker_mentions, limit) ==
    SliceTo(SortedDescending(ticker_mentions, Len(ticker_mentions)), limit)

(***************************************************************************)
(* reddit_ingest.py: fetch_posts and its in-memory cache.  Reddit is seen  *)
(* through the two listings of a subreddit; what it serves is an input of  *)
(* each call.                                                              *)
(***************************************************************************)
Min(a, b) == IF a < b THEN a ELSE b

\* datetime.fromtimestamp(created_utc)
datetime_fromtimestamp(created_utc) == [datetime |-> created_utc]

\* the submission Reddit serves in a listing of subreddit for an item
\* [id, score]
Submission(subreddit, item) ==
    [id |-> item.id,
     title |-> "Sold $AAPL puts",
     selftext |-> "Took profit",
     score |-> item.score,
     created_utc |-> 1640995200,
     permalink |-> "/r/" \o subreddit \o "/comments/" \o item.id \o "/"]

_post_to_dict(submission) ==
    [id |-> submission.id,
     title |-> submission.title,
     selftext |-> submission.selftext,
     score |-> submission.score,
     created_utc |-> datetime_fromtimestamp(submission.created_utc),
     permalink |-> submission.permalink]

\* f"{subreddit}_{limit}_{window_days}"
cache_key(subreddit, limit, window_days) ==
    subreddit \o "_" \o ToString(limit) \o "_" \o ToString(window_days)

\* what a listing of feed yields when asked for at most limit submissions
Listing(subreddit, feed, limit) ==
    [k \in 1..Min(limit, Len(feed)) |-> Submission(subreddit, feed[k])]

\* the loop appending every submission, seen or not
RECURSIVE AppendAll(_, _, _)
AppendAll(listing, i, posts) ==
    IF i > Len(listing) THEN posts
    ELSE AppendAll(listing, i + 1, Append(posts, _post_to_dict(listing[i])))

\* for submission in listing: if submission.id not in seen_ids: ...
\* seen_ids is the set of the ids of posts
RECURSIVE AppendUnseen(_, _, _)
AppendUnseen(listing, i, posts) ==
    IF i > Len(listing) THEN posts
    ELSE IF \E k \in 1..Len(posts) : posts[k].id = listing[i].id
         THEN AppendUnseen(listing, i + 1, posts)
         ELSE AppendUnseen(listing, i + 1, Append(posts, _post_to_dict(listing[i])))

\* hot_limit = min(100, limit * 2)
hot_limit(limit) == Min(100, limit * 2)

TopRequest(limit) == [listing |-> "top", time_filter |-> "week", limit |-> limit]
HotRequest(limit) == [listing |-> "hot", time_filter |-> None, limit |-> hot_limit(limit)]

NoListing == << >>

\* fetch_posts storing what it has collected before it re-raises
fetch_posts_caching_failures(cache, limit, window_days, subreddit, reddit) ==
    LET key == cache_key(subreddit, limit, window_days)
        top == Listing(subreddit, reddit.top, limit)
        hot == Listing(subreddit, reddit.hot, hot_limit(limit))
        from_top == AppendUnseen(top, 1, << >>)
        stored(posts) == [k \in DOMAIN cache \cup {key} |-> IF k = key THEN posts ELSE cache[k]]
    IN  IF key \in DOMAIN cache
        THEN [raised |-> FALSE, result |-> cache[key], cache |-> cache,
              requests |-> << >>, top |-> NoListing, hot |-> NoListing]
        ELSE IF reddit.fails = "top"
        THEN [raised |-> TRUE, result |-> None, cache |-> stored(<< >>),
              requests |-> << TopRequest(limit) >>, top |-> NoListing, hot |-> NoListing]
        ELSE IF reddit.fails = "hot"
        THEN [raised |-> TRUE, result |-> None, cache |-> stored(from_top),
              requests |-> << TopRequest(limit), HotRequest(limit) >>,
              top |-> top, hot |-> NoListing]
        ELSE [raised |-> FALSE, result |-> AppendUnseen(hot, 1, from_top),
              cache |-> stored(AppendUnseen(hot, 1, from_top)),
              requests |-> << TopRequest(limit), HotRequest(limit) >>,
              top |-> top, hot |-> hot]

\* cache is _posts_cache before the call; reddit is what the two listings
\* hold and which of them, if any, raises.  The result names the listings
\* requested and what each yielded.
fetch_posts(cache, limit, window_days, subreddit, reddit) ==
    LET key == cache_key(subreddit, limit, window_days)
        top == Listing(subreddit, reddit.top, limit)
        hot == Listing(subreddit, reddit.hot, hot_limit(limit))
        from_top == AppendUnseen(top, 1, << >>)
        stored(posts) == [k \in DOMAIN cache \cup {key} |-> IF k = key THEN posts ELSE cache[k]]
    IN  IF key \in DOMAIN cache
        THEN [raised |-> FALSE, result |-> cache[key], cache |-> cache,
              requests |-> << >>, top |-> NoListing, hot |-> NoListing]
        ELSE IF reddit.fails = "top"
        THEN [raised |-> TRUE, result |-> None, cache |-> cache,
              requests |-> << TopRequest(limit) >>, top |-> NoListing, hot |-> NoListing]
        ELSE IF reddit.fails = "hot"
        THEN [raised |-> TRUE, result |-> None, cache |-> cache,
              requests |-> << TopRequest(limit), HotRequest(limit) >>,
              top |-> top, hot |-> NoListing]
        ELSE [raised |-> FALSE, result |-> AppendUnseen(hot, 1, from_top),
              cache |-> stored(AppendUnseen(hot, 1, from_top)),
              requests |-> << TopRequest(limit), HotRequest(limit) >>,
              top |-> top, hot |-> hot]

\* _posts_cache.clear()
clear_cache(cache) == EmptyDict

(***************************************************************************)
(* State.                                                                  *)
(***************************************************************************)
VARIABLES
    posts,                  \* the batch of posts the caller holds
    call,                   \* the last call made and what it returned
    _vader_analyzer,        \* sentiment.py module global
    vader_lexicon_on_disk,  \* whether nltk's vader_lexicon is installed
    vader_constructions,    \* the analyzers constructed so far in this process
    now,                    \* the wall clock, in hours
    cache_files,            \* the files of CACHE_DIR
    mentions,               \* a ticker -> count dict the caller holds
    _posts_cache            \* reddit_ingest.py module global

vars == << posts, call, _vader_analyzer, vader_lexicon_on_disk, vader_constructions,
           now, cache_files, mentions, _posts_cache >>
sentiment_vars == << _vader_analyzer, vader_lexicon_on_disk, vader_constructions >>
ticker_vars == << now, cache_files >>

\* largest batch explored
MaxPosts == 2

Batches(universe) == UNION { [1..n -> universe] : n \in 0..MaxPosts }

\* the vader state a call starts with
VaderState == [analyzer |-> _vader_analyzer, on_disk |-> vader_lexicon_on_disk,
               constructions |-> vader_constructions, downloads |-> 0]

SetVaderState(st) ==
    /\ _vader_analyzer' = st.analyzer
    /\ vader_lexicon_on_disk' = st.on_disk
    /\ vader_constructions' = st.constructions

\* what a call of sentiment.py did to the analyzer: whether the lexicon could
\* be downloaded, the analyzer and the lexicon the call found, the analyzers
\* it constructed and the downloads it made
Loading(st, net) ==
    [net |-> net, analyzer_before |-> _vader_analyzer,
     on_disk_before |-> vader_lexicon_on_disk,
     constructed |-> st.constructions - vader_constructions,
     downloads |-> st.downloads]

\* the posts batches of several posts are made of: one for each label a
\* heuristic rule gives and one for each label the fallback gives
BatchPosts == { p \in SentimentPosts : p.id \in {"s1", "s2", "s3", "s4", "s6", "s9"} }

\* every post alone, and every batch of BatchPosts
InitSentiment ==
    /\ posts \in [1..1 -> SentimentPosts] \cup Batches(BatchPosts)
    /\ call = [op |-> "none"]
    /\ _vader_analyzer = None
    /\ vader_lexicon_on_disk \in BOOLEAN
    /\ vader_constructions = 0
    /\ now = 0
    /\ cache_files = [f \in {NASDAQ_FILE, OTHER_FILE} |-> AbsentFile]
    /\ mentions = << >>
    /\ _posts_cache = EmptyDict

LabelPost(i, net) ==
    LET r == label_post(posts[i], VaderState, net)
    IN  /\ call' = [op |-> "label_post", post |-> posts[i], label |-> r.label,
                    raised |-> r.raised, fallback |-> r.fallback,
                    loading |-> Loading(r.st, net)]
        /\ SetVaderState(r.st)
        /\ UNCHANGED << posts, ticker_vars, mentions, _posts_cache >>

FilterPosts(flags, net) ==
    LET r == filter_posts_by_sentiment(posts, flags, VaderState, net)
    IN  /\ call' = [op |-> "filter_posts_by_sentiment", flags |-> flags,
                    result |-> r.result, raised |-> r.raised,
                    loading |-> Loading(r.st, net)]
        /\ SetVaderState(r.st)
        /\ UNCHANGED << posts, ticker_vars, mentions, _posts_cache >>

AnalyzeDistribution(net) ==
    LET r == analyze_sentiment_distribution(posts, VaderState, net)
    IN  /\ call' = [op |-> "analyze_sentiment_distribution",
                    result |-> r.result, raised |-> r.raised,
                    loading |-> Loading(r.st, net)]
        /\ SetVaderState(r.st)
        /\ UNCHANGED << posts, ticker_vars, mentions, _posts_cache >>

FlagSets == [include_positive : BOOLEAN, include_negative : BOOLEAN,
             include_unclear : BOOLEAN]

NextSentiment ==
    \/ \E i \in 1..Len(posts) : \E net \in BOOLEAN : LabelPost(i, net)
    \/ \E flags \in FlagSets, net \in BOOLEAN : FilterPosts(flags, net)
    \/ \E net \in BOOLEAN : AnalyzeDistribution(net)

SpecSentiment == InitSentiment /\ [][NextSentiment]_vars

(***************************************************************************)
(* The ticker extractor and its cache.                                     *)
(***************************************************************************)
\* the clock advances in steps of TickHours, MaxTicks times at most
TickHours == MAX_AGE_HOURS \div 2
MaxTicks == 2

\* the posts batches of several posts are made of: both name AAPL, one of
\* them three times
TickerBatchPosts == { p \in TickerPosts : p.id \in {"t1", "t4"} }

\* every post alone, and every batch of TickerBatchPosts
InitTickers ==
    /\ posts \in [1..1 -> TickerPosts] \cup Batches(TickerBatchPosts)
    /\ call = [op |-> "none"]
    /\ _vader_analyzer = None
    /\ vader_lexicon_on_disk = FALSE
    /\ vader_constructions = 0
    /\ now = 0
    /\ cache_files = [f \in {NASDAQ_FILE, OTHER_FILE} |-> AbsentFile]
    /\ mentions = << >>
    /\ _posts_cache = EmptyDict

Tick ==
    /\ now + TickHours <= MaxTicks * TickHours
    /\ now' = now + TickHours
    /\ UNCHANGED << posts, call, sentiment_vars, cache_files, mentions, _posts_cache >>

\* whether each request of a call was answered, in the order of the requests
Fetched(responses, requested) ==
    [k \in 1..Len(requested) |-> responses[requested[k]].ok]

LoadSymbolMasters(responses, reads) ==
    LET r == _load_symbol_masters(cache_files, now, responses, reads)
    IN  /\ call' = [op |-> "_load_symbol_masters", at |-> now, before |-> cache_files,
                    reads |-> reads,
                    requested |-> r.requested, raised |-> r.raised,
                    fetched |-> Fetched(responses, r.requested),
                    failed |-> r.failed,
                    valid_symbols |-> r.valid_symbols]
        /\ cache_files' = r.files
        /\ UNCHANGED << posts, sentiment_vars, now, mentions, _posts_cache >>

ExtractValidTickers(responses, reads) ==
    LET r == extract_valid_tickers(posts, cache_files, now, responses, reads)
    IN  /\ call' = [op |-> "extract_valid_tickers", at |-> now, before |-> cache_files,
                    reads |-> reads,
                    requested |-> r.requested, raised |-> r.raised,
                    fetched |-> Fetched(responses, r.requested),
                    failed |-> r.failed,
                    valid_symbols |-> r.valid_symbols, result |-> r.result]
        /\ cache_files' = r.files
        /\ UNCHANGED << posts, sentiment_vars, now, mentions, _posts_cache >>

AllResponses ==
    { [f \in {NASDAQ_FILE, OTHER_FILE} |-> IF f = NASDAQ_FILE THEN r1 ELSE r2] :
        r1 \in Responses(NASDAQ_FILE), r2 \in Responses(OTHER_FILE) }

\* a cache directory whose files can be read
Readable == [f \in {NASDAQ_FILE, OTHER_FILE} |-> ReadOk]

\* batches of posts against every answer of the two URLs, the cache
\* directory being readable
NextTickers ==
    \/ Tick
    \/ \E responses \in AllResponses : LoadSymbolMasters(responses, Readable)
    \/ \E responses \in AllResponses : ExtractValidTickers(responses, Readable)

SpecTickers == InitTickers /\ [][NextTickers]_vars

(***************************************************************************)
(* The symbol-master cache under every answer of the two URLs and every    *)
(* outcome of reading the two cached files, for one post.                  *)
(***************************************************************************)
AllReads ==
    { [f \in {NASDAQ_FILE, OTHER_FILE} |-> IF f = NASDAQ_FILE THEN r1 ELSE r2] :
        r1 \in ReadOutcomes, r2 \in ReadOutcomes }

InitLoad ==
    /\ posts \in { b \in Batches(TickerPosts) : Len(b) = 1 /\ b[1].id = "t1" }
    /\ call = [op |-> "none"]
    /\ _vader_analyzer = None
    /\ vader_lexicon_on_disk = FALSE
    /\ vader_constructions = 0
    /\ now = 0
    /\ cache_files = [f \in {NASDAQ_FILE, OTHER_FILE} |-> AbsentFile]
    /\ mentions = << >>
    /\ _posts_cache = EmptyDict

NextLoad ==
    \/ Tick
    \/ \E responses \in AllResponses : \E reads \in AllReads :
           LoadSymbolMasters(responses, reads)
    \/ \E responses \in AllResponses : \E reads \in AllReads :
           ExtractValidTickers(responses, reads)

SpecLoad == InitLoad /\ [][NextLoad]_vars

(***************************************************************************)
(* The four operations over posts that lack the title, the selftext or     *)
(* both, next to posts that have both.                                     *)
(***************************************************************************)
FieldPosts ==
    { p \in SentimentPosts \cup TickerPosts : p.id \in {"s6", "s8", "t1", "t4"} }

\* the answers of the two URLs used with these posts: feeds that list AAPL,
\* TSLA and A, or no answer from the first URL
FieldResponses ==
    { r \in AllResponses :
        /\ r[OTHER_FILE].ok /\ "A" \in ParsedSymbols[OTHER_FILE][r[OTHER_FILE].text]
        /\ r[NASDAQ_FILE].ok => "TSLA" \in ParsedSymbols[NASDAQ_FILE][r[NASDAQ_FILE].text] }

InitFields ==
    /\ posts \in Batches(FieldPosts)
    /\ call = [op |-> "none"]
    /\ _vader_analyzer = None
    /\ vader_lexicon_on_disk \in BOOLEAN
    /\ vader_constructions = 0
    /\ now = 0
    /\ cache_files = [f \in {NASDAQ_FILE, OTHER_FILE} |-> AbsentFile]
    /\ mentions = << >>
    /\ _posts_cache = EmptyDict

NextFields ==
    \/ \E i \in 1..Len(posts) : \E net \in BOOLEAN : LabelPost(i, net)
    \/ \E flags \in FlagSets, net \in BOOLEAN : FilterPosts(flags, net)
    \/ \E net \in BOOLEAN : AnalyzeDistribution(net)
    \/ \E responses \in FieldResponses : ExtractValidTickers(responses, Readable)

SpecFields == InitFields /\ [][NextFields]_vars

(***************************************************************************)
(* _extract_tickers_from_text over every text of a small alphabet: the     *)
(* dollar sign, an uppercase letter, a lowercase letter and a digit.       *)
(***************************************************************************)
ExtractAlphabet == {"$", "A", "b", "1"}
\* longest text explored: a dollar sign and six letters
MaxTextLen == 7

\* ''.join(chars)
RECURSIVE str_join(_)
str_join(chars) ==
    IF Len(chars) = 0 THEN "" ELSE Head(chars) \o str_join(Tail(chars))

TextsOfLen(n) == { str_join(chars) : chars \in [1..n -> ExtractAlphabet] }

\* the caller holds a text it has not passed yet
InitExtract ==
    /\ posts = << >>
    /\ \E n \in 0..MaxTextLen : \E text \in TextsOfLen(n) :
           call = [op |-> "text", text |-> text]
    /\ _vader_analyzer = None
    /\ vader_lexicon_on_disk = FALSE
    /\ vader_constructions = 0
    /\ now = 0
    /\ cache_files = [f \in {NASDAQ_FILE, OTHER_FILE} |-> AbsentFile]
    /\ mentions = << >>
    /\ _posts_cache = EmptyDict

ExtractTickersFromText ==
    /\ call.op = "text"
    /\ call' = [op |-> "_extract_tickers_from_text", text |-> call.text,
                result |-> _extract_tickers_from_text(call.text)]
    /\ UNCHANGED << posts, sentiment_vars, ticker_vars, mentions, _posts_cache >>

NextExtract == ExtractTickersFromText

SpecExtract == InitExtract /\ [][NextExtract]_vars

(***************************************************************************)
(* fetch_posts and clear_cache.                                            *)
(***************************************************************************)
FetchPosts(limit, window_days, subreddit, reddit) ==
    LET r == fetch_posts(_posts_cache, limit, window_days, subreddit, reddit)
    IN  /\ call' = [op |-> "fetch_posts", limit |-> limit, window_days |-> window_days,
                    subreddit |-> subreddit, before |-> _posts_cache,
                    requests |-> r.requests, top |-> r.top, hot |-> r.hot,
                    raised |-> r.raised, result |-> r.result]
        /\ _posts_cache' = r.cache
        /\ UNCHANGED << posts, sentiment_vars, ticker_vars, mentions >>

ClearCache ==
    /\ call' = [op |-> "clear_cache", before |-> _posts_cache]
    /\ _posts_cache' = clear_cache(_posts_cache)
    /\ UNCHANGED << posts, sentiment_vars, ticker_vars, mentions >>

InitReddit ==
    /\ posts = << >>
    /\ call = [op |-> "none"]
    /\ _vader_analyzer = None
    /\ vader_lexicon_on_disk = FALSE
    /\ vader_constructions = 0
    /\ now = 0
    /\ cache_files = [f \in {NASDAQ_FILE, OTHER_FILE} |-> AbsentFile]
    /\ mentions = << >>
    /\ _posts_cache = EmptyDict

\* longest listing Reddit holds
MaxListing == 2

\* the items of the two listings: the submission a is in both, its score
\* having changed in between
TopItems == { [id |-> "a", score |-> 10], [id |-> "b", score |-> 5] }
HotItems == { [id |-> "a", score |-> 11], [id |-> "b", score |-> 5] }

Feeds_of(items) == UNION { [1..n -> items] : n \in 0..MaxListing }

\* every content of the two listings, Reddit answering
RedditAnswers ==
    { [top |-> t, hot |-> h, fails |-> "none"] : t \in Feeds_of(TopItems), h \in Feeds_of(HotItems) }

\* a limit below and a limit above the cap of the hot listing
DedupLimits == {1, 51}

NextReddit ==
    \/ \E limit \in DedupLimits, reddit \in RedditAnswers :
           FetchPosts(limit, 7, "thetagang", reddit)
    \/ ClearCache

SpecReddit == InitReddit /\ [][NextReddit]_vars

(***************************************************************************)
(* The cache of fetch_posts over several keys, Reddit answering or not and *)
(* its listings changing between calls.                                    *)
(***************************************************************************)
CacheSubreddits == {"thetagang", "options"}
CacheWindows == {7, 30}

RedditStates ==
    { [top |-> t, hot |-> << [id |-> "a", score |-> 11] >>, fails |-> f] :
        t \in { << [id |-> "a", score |-> 10] >>, << [id |-> "b", score |-> 5] >> },
        f \in {"none", "top", "hot"} }

NextRedditCache ==
    \/ \E window_days \in CacheWindows, subreddit \in CacheSubreddits, reddit \in RedditStates :
           FetchPosts(1, window_days, subreddit, reddit)
    \/ ClearCache

SpecRedditCache == InitReddit /\ [][NextRedditCache]_vars

(***************************************************************************)
(* get_top_tickers over the dicts a caller can hold.                       *)
(***************************************************************************)
TopSymbols == {"AAPL", "TSLA", "SPY"}
\* largest mention count and largest limit explored
MaxCount == 2
MaxLimit == 4

\* every insertion order of every dict over TopSymbols
MentionDicts ==
    { d \in UNION { [1..n -> TopSymbols \X (1..MaxCount)] : n \in 0..Cardinality(TopSymbols) } :
        \A i, j \in 1..Len(d) : i # j => d[i][1] # d[j][1] }

InitTop ==
    /\ posts = << >>
    /\ call = [op |-> "none"]
    /\ _vader_analyzer = None
    /\ vader_lexicon_on_disk = FALSE
    /\ vader_constructions = 0
    /\ now = 0
    /\ cache_files = [f \in {NASDAQ_FILE, OTHER_FILE} |-> AbsentFile]
    /\ mentions \in MentionDicts
    /\ _posts_cache = EmptyDict

GetTopTickers(limit) ==
    /\ call' = [op |-> "get_top_tickers", limit |-> limit,
                result |-> get_top_tickers(mentions, limit)]
    /\ UNCHANGED << posts, sentiment_vars, ticker_vars, mentions, _posts_cache >>

NextTop == \E limit \in 0..MaxLimit : GetTopTickers(limit)

SpecTop == InitTop /\ [][NextTop]_vars

(***************************************************************************)
(* Properties.                                                             *)
(***************************************************************************)
TypeOK ==
    call.op \in {"none", "label_post", "filter_posts_by_sentiment",
                 "analyze_sentiment_distribution", "_load_symbol_masters",
                 "extract_valid_tickers", "get_top_tickers"}

IsLabelCall == call.op = "label_post"
CallFacts == TextFacts[full_text_of(call.post)]

\* the label the compound-score thresholds give
ThresholdLabel(compound) ==
    IF compound >= 20 THEN "positive"
    ELSE IF compound <= -20 THEN "negative" ELSE "unclear"

\* C1 as stated: a post with both positive and negative evidence gets the label
\* of the statistical fallback, whether or not an unclear phrase is present.
C1_ConflictAlwaysFallback ==
    (IsLabelCall /\ ~call.raised /\ CallFacts.has_positive /\ CallFacts.has_negative)
        => (call.fallback /\ call.label = ThresholdLabel(CallFacts.compound))

\* C1 amended: a post with both positive and negative evidence and no unclear
\* phrase gets the label of the statistical fallback; when an unclear phrase is
\* also present it gets "unclear" without the fallback being consulted.
C1_ConflictFallbackUnlessUnclear ==
    (IsLabelCall /\ CallFacts.has_positive /\ CallFacts.has_negative)
        => IF CallFacts.has_unclear
           THEN ~call.raised /\ ~call.fallback /\ call.label = "unclear"
           ELSE /\ call.fallback
                /\ ~call.raised => call.label = ThresholdLabel(CallFacts.compound)

C1_Witness ==
    /\ IsLabelCall /\ ~call.raised
    /\ CallFacts.has_positive /\ CallFacts.has_negative /\ ~CallFacts.has_unclear
    /\ call.fallback /\ call.label = "positive"

\* C3: a post with positive evidence and no negative evidence is labelled
\* "positive" by the heuristic rule, whatever unclear phrases it has.
C3_PositiveOnly ==
    (IsLabelCall /\ CallFacts.has_positive /\ ~CallFacts.has_negative)
        => (~call.raised /\ ~call.fallback /\ call.label = "positive")

C3_Witness ==
    /\ IsLabelCall /\ CallFacts.has_positive /\ ~CallFacts.has_negative
    /\ CallFacts.has_unclear /\ call.label = "positive"

\* C4: a post with negative evidence and no positive evidence is labelled
\* "negative" by the heuristic rule, whatever unclear phrases it has.
C4_NegativeOnly ==
    (IsLabelCall /\ CallFacts.has_negative /\ ~CallFacts.has_positive)
        => (~call.raised /\ ~call.fallback /\ call.label = "negative")

C4_Witness ==
    /\ IsLabelCall /\ CallFacts.has_negative /\ ~CallFacts.has_positive
    /\ CallFacts.has_unclear /\ call.label = "negative"

IsExtractReturn == call.op = "extract_valid_tickers" /\ ~call.raised
PostFacts(i) == TextFacts[full_text_of(posts[i])]

\* the words a post carries as cashtags, upper-cased, and as bare tokens
CashtagWords(i) ==
    { str_upper(PostFacts(i).cashtags[k]) : k \in 1..Len(PostFacts(i).cashtags) }
BareWords(i) == { PostFacts(i).all_caps[k] : k \in 1..Len(PostFacts(i).all_caps) }

\* C2 as stated: no stop-list word is a key of the result of
\* extract_valid_tickers, bare or as a cashtag.
C2_NoStopWordKey ==
    IsExtractReturn => DOMAIN call.result \cap EXCLUDED_WORDS = {}

\* C2 amended: a stop-list word is a key of the result only if some post of
\* the batch carries it as a cashtag; one that occurs only as a bare uppercase
\* token is never a key.
C2_StopWordKeyOnlyByCashtag ==
    IsExtractReturn =>
        \A w \in DOMAIN call.result \cap EXCLUDED_WORDS :
            \E i \in 1..Len(posts) : w \in CashtagWords(i)

C2_Witness ==
    /\ IsExtractReturn
    /\ \E w \in EXCLUDED_WORDS \cap call.valid_symbols :
          /\ \E i \in 1..Len(posts) : w \in BareWords(i)
          /\ \A i \in 1..Len(posts) : w \notin CashtagWords(i)
          /\ w \notin DOMAIN call.result

PostsContaining(ticker) == { i \in 1..Len(posts) : ticker \in PostFacts(i).tickers }

\* how often the two patterns match the ticker in post i
Occurrences(i, ticker) ==
    LET matches == PostFacts(i).cashtags \o PostFacts(i).all_caps
    IN  Cardinality({ k \in 1..Len(matches) : str_upper(matches[k]) = ticker })

\* C5: every count of the result is the number of posts of the batch that
\* contain the symbol, hence between 0 and the batch size, however often the
\* symbol occurs inside one post.
C5_CountsArePostCounts ==
    IsExtractReturn =>
        /\ \A t \in DOMAIN call.result :
              /\ call.result[t] = Cardinality(PostsContaining(t))
              /\ call.result[t] >= 0 /\ call.result[t] <= Len(posts)
        /\ \A t \in call.valid_symbols \ DOMAIN call.result : PostsContaining(t) = {}

C5_Witness ==
    /\ IsExtractReturn
    /\ \E t \in DOMAIN call.result :
          /\ call.result[t] = Len(posts) /\ Len(posts) >= 2
          /\ \E i \in 1..Len(posts) : Occurrences(i, t) >= 3

IsDistributionReturn == call.op = "analyze_sentiment_distribution" /\ ~call.raised

\* C6: the mapping analyze_sentiment_distribution returns has exactly the
\* keys positive, negative and unclear, and its values sum to len(posts).
C6_DistributionSums ==
    IsDistributionReturn =>
        /\ DOMAIN call.result = {"positive", "negative", "unclear"}
        /\ call.result["positive"] + call.result["negative"] + call.result["unclear"]
               = Len(posts)

C6_Witness ==
    /\ IsDistributionReturn /\ Len(posts) >= 2
    /\ call.result["unclear"] >= 1 /\ call.result["positive"] >= 1

\* C7: every key of the result of extract_valid_tickers is in the set
\* _load_symbol_masters returned for that call.
C7_KeysOnAllowList ==
    IsExtractReturn =>
        /\ DOMAIN call.result \subseteq call.valid_symbols
        /\ call.valid_symbols =
               ParseLines(cache_files[NASDAQ_FILE].lines, "Symbol|", 1)
               \cup ParseLines(cache_files[OTHER_FILE].lines, "ACT Symbol|", 1)

C7_Witness ==
    /\ IsExtractReturn /\ DOMAIN call.result # {}
    /\ \E i \in 1..Len(posts) : PostFacts(i).tickers \ call.valid_symbols # {}

IsFilterReturn == call.op = "filter_posts_by_sentiment" /\ ~call.raised

\* the state in which the analyzer is loaded, and the label a post gets then
LoadedVader == [analyzer |-> "SentimentIntensityAnalyzer", on_disk |-> TRUE,
                constructions |-> 1, downloads |-> 0]
LabelOf(post) == label_post(post, LoadedVader, TRUE).label

EnabledLabels(flags) ==
    { l \in {"positive"} : flags.include_positive }
    \cup { l \in {"negative"} : flags.include_negative }
    \cup { l \in {"unclear"} : flags.include_unclear }

Kept(flags) == { i \in 1..Len(posts) : LabelOf(posts[i]) \in EnabledLabels(flags) }

IsSubsequence(a, b) ==
    \E f \in [1..Len(a) -> 1..Len(b)] :
        /\ \A j, k \in 1..Len(a) : j < k => f[j] < f[k]
        /\ \A k \in 1..Len(a) : a[k] = b[f[k]]

MoreFlags(flags, other) ==
    /\ flags.include_positive => other.include_positive
    /\ flags.include_negative => other.include_negative
    /\ flags.include_unclear => other.include_unclear

DefaultFlags ==
    [include_positive |-> TRUE, include_negative |-> FALSE, include_unclear |-> FALSE]

\* C8: filter_posts_by_sentiment returns, in input order, the posts whose
\* label is enabled, each with its label in the field sentiment; with more
\* labels enabled the result only gains posts.
C8_FilterKeepsEnabled ==
    IsFilterReturn =>
        /\ Len(call.result) = Cardinality(Kept(call.flags))
        /\ \A i \in Kept(call.flags) :
              call.result[Cardinality({ j \in Kept(call.flags) : j <= i })]
                  = [k \in DOMAIN posts[i] \cup {"sentiment"} |->
                        IF k = "sentiment" THEN LabelOf(posts[i]) ELSE posts[i][k]]
        /\ \A other \in FlagSets :
              MoreFlags(call.flags, other) =>
                  IsSubsequence(call.result,
                      filter_posts_by_sentiment(posts, other, LoadedVader, TRUE).result)

C8_Witness ==
    /\ IsFilterReturn /\ call.flags = DefaultFlags
    /\ Len(call.result) >= 1 /\ Len(call.result) < Len(posts)

IsTopCall == call.op = "get_top_tickers"
Smaller(a, b) == IF a < b THEN a ELSE b

\* position of a returned pair in mentions.items()
PositionIn(pair) == CHOOSE i \in 1..Len(mentions) : mentions[i] = pair

\* C9: get_top_tickers returns min(limit, len(mentions)) pairs of mentions,
\* by count descending, equal counts in insertion order, and no pair left out
\* has a larger count than a returned one.
C9_TopTickers ==
    IsTopCall =>
        LET result == call.result
            returned == { result[k] : k \in 1..Len(result) }
            all == { mentions[i] : i \in 1..Len(mentions) }
        IN  /\ Len(result) = Smaller(call.limit, Len(mentions))
            /\ returned \subseteq all
            /\ Cardinality(returned) = Len(result)
            /\ \A k \in 1..(Len(result) - 1) :
                  \/ result[k][2] > result[k + 1][2]
                  \/ /\ result[k][2] = result[k + 1][2]
                     /\ PositionIn(result[k]) < PositionIn(result[k + 1])
            /\ \A out \in all \ returned : \A in \in returned : out[2] <= in[2]

C9_Witness ==
    /\ IsTopCall /\ Len(call.result) = 2 /\ Len(mentions) = 3
    /\ call.result[1][2] = call.result[2][2]
    /\ mentions[1][2] < call.result[1][2]

IsLoadCall == call.op \in {"_load_symbol_masters", "extract_valid_tickers"}

\* absent, or modified 24 hours before the call or earlier
StaleAtCall(f) ==
    ~call.before[f].exists \/ call.at - call.before[f].mtime >= 24

Requested(f) == \E k \in 1..Len(call.requested) : call.requested[k] = f

\* C10 as stated: each file is downloaded in a call exactly when it is absent
\* or 24 hours old, and a fresh file is neither downloaded nor overwritten.
C10_DownloadedIffStale ==
    IsLoadCall =>
        \A f \in {NASDAQ_FILE, OTHER_FILE} :
            /\ Requested(f) <=> StaleAtCall(f)
            /\ ~StaleAtCall(f) => cache_files[f] = call.before[f]

\* C10 amended: nasdaqlisted.txt is downloaded exactly when it is absent or 24
\* hours old; otherlisted.txt exactly when it is absent or 24 hours old and the
\* download of nasdaqlisted.txt did not fail in this call; a fresh file is
\* neither downloaded nor overwritten.
C10_DownloadedIffStaleAndReached ==
    IsLoadCall =>
        /\ Requested(NASDAQ_FILE) <=> StaleAtCall(NASDAQ_FILE)
        /\ Requested(OTHER_FILE) <=>
               (StaleAtCall(OTHER_FILE) /\ call.failed # NASDAQ_FILE)
        /\ \A f \in {NASDAQ_FILE, OTHER_FILE} :
               ~StaleAtCall(f) => (~Requested(f) /\ cache_files[f] = call.before[f])

C10_Witness ==
    /\ IsLoadCall
    /\ call.before[NASDAQ_FILE].exists
    /\ call.at - call.before[NASDAQ_FILE].mtime = 24
    /\ ~StaleAtCall(OTHER_FILE)
    /\ call.requested = << NASDAQ_FILE >>
    /\ cache_files[OTHER_FILE] = call.before[OTHER_FILE]
\* the files of the cache directory
FILES == {NASDAQ_FILE, OTHER_FILE}

OtherOf(f) == IF f = NASDAQ_FILE THEN OTHER_FILE ELSE NASDAQ_FILE

\* a request of the call was not answered
FetchFailed == \E k \in 1..Len(call.fetched) : ~call.fetched[k]

\* the call handed nothing back to its caller
NoResult ==
    /\ call.valid_symbols = None
    /\ call.op = "extract_valid_tickers" => call.result = None

\* C11: a fetch failure during _load_symbol_masters or extract_valid_tickers
\* is raised to the caller and no result is returned; within one call each
\* source is requested at most once, and nothing is requested after a failure.
C11_FetchFailurePropagates ==
    IsLoadCall =>
        /\ FetchFailed => (call.raised /\ NoResult)
        /\ \A i, j \in 1..Len(call.requested) :
               i # j => call.requested[i] # call.requested[j]
        /\ \A k \in 1..Len(call.fetched) : ~call.fetched[k] => k = Len(call.fetched)

C11_Witness ==
    /\ call.op = "extract_valid_tickers"
    /\ call.requested = << NASDAQ_FILE, OTHER_FILE >>
    /\ call.fetched = << TRUE, FALSE >>
    /\ call.raised
    /\ call.result = None

\* the symbols of the file f as the cache directory holds it now
SymbolsOf(f) == ParsedSymbols[f][cache_files[f].lines]

\* C12 as stated: when refreshing one source fails, the allow-list obtained
\* from that request still contains the symbols of the other source.
C12_OtherSourceSymbolsReturned ==
    (IsLoadCall /\ FetchFailed) =>
        /\ call.valid_symbols # None
        /\ SymbolsOf(OtherOf(call.failed)) \subseteq call.valid_symbols

\* C12 amended: when refreshing one source fails the request raises and no
\* allow-list is obtained; the cached file of the other source is not
\* invalidated: it is as it was before the request, or, when it was stale and
\* refreshed earlier in the same request, it is the file just downloaded.
C12_RefreshFailureKeepsOtherFile ==
    (IsLoadCall /\ FetchFailed) =>
        /\ call.raised /\ NoResult
        /\ call.failed = NASDAQ_FILE =>
               cache_files[OTHER_FILE] = call.before[OTHER_FILE]
        /\ call.failed = OTHER_FILE =>
               IF StaleAtCall(NASDAQ_FILE)
               THEN /\ cache_files[NASDAQ_FILE].exists
                    /\ cache_files[NASDAQ_FILE].mtime = call.at
                    /\ cache_files[NASDAQ_FILE].lines \in NasdaqFeeds
               ELSE cache_files[NASDAQ_FILE] = call.before[NASDAQ_FILE]

C12_Witness ==
    /\ IsLoadCall /\ FetchFailed
    /\ call.failed = OTHER_FILE
    /\ call.before[OTHER_FILE].exists
    /\ call.before[NASDAQ_FILE].exists
    /\ cache_files[NASDAQ_FILE] # call.before[NASDAQ_FILE]
    /\ cache_files[OTHER_FILE] = call.before[OTHER_FILE]
    /\ SymbolsOf(NASDAQ_FILE) # {}

\* C13: when reading or parsing one cached file raises, no error reaches the
\* caller, and the returned set contains every symbol of the other file; the
\* only errors a call raises are fetch failures.
C13_ReadErrorIsContained ==
    IsLoadCall =>
        /\ call.raised => FetchFailed
        /\ ~call.raised =>
               \A f \in FILES :
                   (~call.reads[f].ok /\ call.reads[OtherOf(f)].ok) =>
                       SymbolsOf(OtherOf(f)) \subseteq call.valid_symbols

C13_Witness ==
    /\ call.op = "_load_symbol_masters"
    /\ ~call.raised
    /\ call.reads[NASDAQ_FILE] = ReadError(MaxLinesRead)
    /\ call.reads[OTHER_FILE].ok
    /\ "AAPL" \in call.valid_symbols
    /\ SymbolsOf(NASDAQ_FILE) \ call.valid_symbols # {}
    /\ SymbolsOf(OTHER_FILE) # {}
    /\ SymbolsOf(OTHER_FILE) \subseteq call.valid_symbols

\* a footer line: one that begins with "File Creation Time"
IsFooter(line) == At(line, 1, "File Creation Time")

\* the data lines of a file: every line after the header that is no footer
\* and has a pipe
DataLines(lines) ==
    { k \in 2..Len(lines) : ~IsFooter(lines[k]) /\ str_contains(lines[k], "|") }

DataSymbols(lines) ==
    { str_upper(str_strip(FirstField(lines[k], 1))) : k \in DataLines(lines) } \ {""}

\* C14: the set _load_symbol_masters returns is exactly the union over both
\* cached files of the upper-cased first field of each data line; headers and
\* footer lines beginning with "File Creation Time", with or without
\* trailing pipe-delimited fields, contribute nothing.
C14_UnionOfDataLines ==
    (IsLoadCall /\ ~call.raised /\ \A f \in FILES : call.reads[f].ok) =>
        call.valid_symbols =
            DataSymbols(cache_files[NASDAQ_FILE].lines)
            \cup DataSymbols(cache_files[OTHER_FILE].lines)
\* the evidence of the post of a label_post call
PositiveOnly == CallFacts.has_positive /\ ~CallFacts.has_negative
NegativeOnly == CallFacts.has_negative /\ ~CallFacts.has_positive

\* none of the three heuristic rules applies: the call needs the fallback
NeedsFallback == ~PositiveOnly /\ ~NegativeOnly /\ ~CallFacts.has_unclear

\* the call found no analyzer and no lexicon, and could not download one
LexiconUnavailable ==
    /\ call.loading.analyzer_before = None
    /\ ~call.loading.on_disk_before
    /\ ~call.loading.net

\* C15: when label_post needs the fallback and the lexicon cannot be loaded,
\* the call raises and returns no label; a call raises in no other case, and
\* every label that comes from the fallback was given by a loaded analyzer.
C15_LexiconFailureRaised ==
    IsLabelCall =>
        /\ (NeedsFallback /\ LexiconUnavailable) => (call.raised /\ call.label = None)
        /\ call.raised => (NeedsFallback /\ LexiconUnavailable)
        /\ (NeedsFallback /\ ~call.raised) => _vader_analyzer # None

C15_Witness ==
    /\ IsLabelCall
    /\ NeedsFallback /\ LexiconUnavailable
    /\ call.raised /\ call.label = None
    /\ call.loading.downloads = 1
    /\ _vader_analyzer = None

\* C17: when neither the positive-only nor the negative-only rule applies and
\* an unclear phrase is present, label_post returns "unclear" and does not
\* touch the analyzer; an unclear phrase never overrides a positive-only or a
\* negative-only signal.
C17_UnclearPhrasePrecedence ==
    (IsLabelCall /\ CallFacts.has_unclear) =>
        /\ ~call.raised
        /\ ~call.fallback
        /\ call.loading.constructed = 0 /\ call.loading.downloads = 0
        /\ call.label = IF PositiveOnly THEN "positive"
                        ELSE IF NegativeOnly THEN "negative" ELSE "unclear"

C17_Witness ==
    /\ IsLabelCall
    /\ CallFacts.has_unclear /\ CallFacts.has_positive /\ CallFacts.has_negative
    /\ call.label = "unclear"
    /\ call.loading.on_disk_before /\ _vader_analyzer = None

\* C18: a label_post call that returns yields one of the three labels; when
\* it reaches the fallback the label is that of the compound score alone,
\* >= 0.2 positive, <= -0.2 negative, "unclear" in between; a post with empty
\* title and body reaches the fallback and gets "unclear".
C18_FallbackThresholds ==
    (IsLabelCall /\ ~call.raised) =>
        /\ call.label \in {"positive", "negative", "unclear"}
        /\ NeedsFallback <=> call.fallback
        /\ call.fallback =>
               call.label = IF CallFacts.compound >= 20 THEN "positive"
                            ELSE IF CallFacts.compound <= -20 THEN "negative"
                            ELSE "unclear"
        /\ full_text_of(call.post) = " " => (call.fallback /\ call.label = "unclear")

C18_Witness ==
    /\ IsLabelCall /\ ~call.raised
    /\ call.fallback
    /\ CallFacts.compound = -20
    /\ call.label = "negative"

IsSentimentCall ==
    call.op \in {"label_post", "filter_posts_by_sentiment",
                 "analyze_sentiment_distribution"}

\* C19: in one process the analyzer is constructed at most once; a call that
\* finds the analyzer loaded keeps that instance, constructs nothing and
\* downloads nothing.
C19_AnalyzerConstructedOnce ==
    /\ vader_constructions <= 1
    /\ (vader_constructions = 1) <=> (_vader_analyzer # None)
    /\ (IsSentimentCall /\ call.loading.analyzer_before # None) =>
           /\ call.loading.constructed = 0
           /\ call.loading.downloads = 0
           /\ _vader_analyzer = call.loading.analyzer_before

C19_Witness ==
    /\ IsLabelCall /\ ~call.raised
    /\ call.fallback
    /\ call.loading.analyzer_before # None
    /\ ~call.loading.net
    /\ vader_constructions = 1
\* the post with each missing field set to the empty string
WithEmptyFields(post) ==
    dict_set(dict_set(post, "title", dict_get(post, "title", "")),
             "selftext", dict_get(post, "selftext", ""))

LacksField(post) == "title" \notin DOMAIN post \/ "selftext" \notin DOMAIN post

CompletedPosts == [i \in 1..Len(posts) |-> WithEmptyFields(posts[i])]

\* the vader state the last call started with
StateBefore ==
    [analyzer |-> call.loading.analyzer_before, on_disk |-> call.loading.on_disk_before,
     constructions |-> vader_constructions - call.loading.constructed, downloads |-> 0]

\* the ids and the labels of the posts a filter call returned
IdsAndLabels(result) == [k \in DOMAIN result |-> << result[k].id, result[k].sentiment >>]

SameLabel(r) ==
    call.label = r.label /\ call.raised = r.raised /\ call.fallback = r.fallback

SameFiltered(r) ==
    /\ call.raised = r.raised
    /\ ~call.raised => IdsAndLabels(call.result) = IdsAndLabels(r.result)

SameResult(r) == call.raised = r.raised /\ call.result = r.result

\* C16: each of label_post, filter_posts_by_sentiment,
\* analyze_sentiment_distribution and extract_valid_tickers gives, for posts
\* lacking the title, the selftext or both, what it gives for the same posts
\* with the missing fields set to ""; the sentiment operations raise only
\* when the lexicon cannot be loaded, extract_valid_tickers only when a fetch
\* failed; a post without either field is labelled "unclear" and carries no
\* ticker.
C16_MissingFieldsAreEmpty ==
    /\ IsLabelCall =>
           /\ SameLabel(label_post(WithEmptyFields(call.post), StateBefore, call.loading.net))
           /\ (~call.raised /\ DOMAIN call.post \cap {"title", "selftext"} = {})
                  => call.label = "unclear"
    /\ call.op = "filter_posts_by_sentiment" =>
           SameFiltered(filter_posts_by_sentiment(CompletedPosts, call.flags, StateBefore,
                                                  call.loading.net))
    /\ call.op = "analyze_sentiment_distribution" =>
           SameResult(analyze_sentiment_distribution(CompletedPosts, StateBefore,
                                                     call.loading.net))
    /\ IsSentimentCall =>
           (call.raised => (call.loading.analyzer_before = None
                            /\ ~call.loading.on_disk_before /\ ~call.loading.net))
    /\ call.op = "extract_valid_tickers" =>
           /\ call.raised <=> FetchFailed
           /\ ~call.raised =>
                  call.result = CountPosts(CompletedPosts, 1, call.valid_symbols, EmptyDict)

\* a batch whose first post has neither field and whose second lacks the
\* title was counted whole
C16_Witness ==
    /\ call.op = "analyze_sentiment_distribution" /\ ~call.raised
    /\ Len(posts) = 2
    /\ DOMAIN posts[1] \cap {"title", "selftext"} = {}
    /\ "title" \notin DOMAIN posts[2] /\ "selftext" \in DOMAIN posts[2]
    /\ call.result["unclear"] = 1 /\ call.result["positive"] = 1
IsExtractTextCall == call.op = "_extract_tickers_from_text"

\* position i of the text of the call is past its end or holds no word character
NoWordCharAt(i) == i < 1 \/ i > Len(call.text) \/ Ch(call.text, i) \notin WordSet

\* a '$' at position i, then m letters, 1 <= m <= 5, then a word boundary
CashtagAt(i, m) ==
    /\ Ch(call.text, i) = "$"
    /\ i + m <= Len(call.text)
    /\ \A k \in (i + 1)..(i + m) : Ch(call.text, k) \in LetterSet
    /\ NoWordCharAt(i + m + 1)

\* a whole word of m uppercase letters, 1 <= m <= 5, at position i
BareUpperAt(i, m) ==
    /\ i + m - 1 <= Len(call.text)
    /\ \A k \in i..(i + m - 1) : Ch(call.text, k) \in UpperSet
    /\ NoWordCharAt(i - 1)
    /\ NoWordCharAt(i + m)

\* position k lies in a run of six or more letters
InLongRun(k) ==
    \E i \in 1..k : \E j \in k..Len(call.text) :
        /\ j - i + 1 >= 6
        /\ \A n \in i..j : Ch(call.text, n) \in LetterSet

Positions == 1..Len(call.text)
TickerLens == 1..5

\* C20: every cashtag of the text, in any letter case, has its letters
\* upper-cased in the result of _extract_tickers_from_text; every other member
\* of the result is a whole word of 1 to 5 uppercase letters of the text; a
\* text whose letters all lie in runs of six or more letters gives nothing.
C20_CashtagsNormalisedBareUppercase ==
    IsExtractTextCall =>
        /\ \A i \in Positions : \A m \in TickerLens :
               CashtagAt(i, m) => str_upper(SubSeq(call.text, i + 1, i + m)) \in call.result
        /\ \A t \in call.result :
               \/ \E i \in Positions : \E m \in TickerLens :
                      CashtagAt(i, m) /\ t = str_upper(SubSeq(call.text, i + 1, i + m))
               \/ \E i \in Positions : \E m \in TickerLens :
                      BareUpperAt(i, m) /\ t = SubSeq(call.text, i, i + m - 1)
        /\ (\A k \in Positions : Ch(call.text, k) \in LetterSet => InLongRun(k))
               => call.result = {}

\* a mixed-case cashtag and a lowercase bare word: only the cashtag counts
C20_Witness ==
    /\ IsExtractTextCall
    /\ call.text = "$Ab$A1b"
    /\ call.result = {"AB"}

\* C21: when reading or parsing one cached file raises in
\* _load_symbol_masters, that file contributes nothing: every symbol of the
\* returned set is listed in the other file.
C21_FailingSourceContributesNothing ==
    (IsLoadCall /\ ~call.raised) =>
        \A f \in FILES :
            ~call.reads[f].ok => call.valid_symbols \subseteq SymbolsOf(OtherOf(f))

\* C24: when a download fails at the request or at the status check, the
\* cached file of that source is as it was before the call, content and
\* modification time, so it is still absent or stale; when the failing source
\* is the second one and the first was refreshed in the same call, the first
\* file holds what was just downloaded.
C24_FailedDownloadLeavesFile ==
    (IsLoadCall /\ FetchFailed) =>
        /\ cache_files[call.failed] = call.before[call.failed]
        /\ ~cache_files[call.failed].exists
              \/ call.at - cache_files[call.failed].mtime >= 24
        /\ (call.failed = OTHER_FILE /\ Requested(NASDAQ_FILE)) =>
               /\ cache_files[NASDAQ_FILE].exists
               /\ cache_files[NASDAQ_FILE].mtime = call.at
               /\ cache_files[NASDAQ_FILE].lines \in NasdaqFeeds

\* a stale file with content survived a failed request for it
C24_Witness ==
    /\ IsLoadCall /\ FetchFailed
    /\ call.failed = NASDAQ_FILE
    /\ call.before[NASDAQ_FILE].exists
    /\ call.before[NASDAQ_FILE].lines \in NasdaqFeeds
    /\ cache_files[NASDAQ_FILE] = call.before[NASDAQ_FILE]
    /\ call.at - cache_files[NASDAQ_FILE].mtime >= 24

\* a step that is a call of _load_symbol_masters, directly or through
\* extract_valid_tickers
LoadStep ==
    /\ now' = now
    /\ call'.op \in {"_load_symbol_masters", "extract_valid_tickers"}

\* the file f of the cache directory exists and is less than 24 hours old
FreshNow(f) == cache_files[f].exists /\ now - cache_files[f].mtime < 24

AllReadOk(c) == \A f \in FILES : c.reads[f].ok

\* both calls read both files without error
BothReadable == AllReadOk(call) /\ AllReadOk(call')

\* C25 as stated: a call made less than 24 hours after a call that returned
\* without error performs no download and returns the same symbol set.
C25_NoDownloadWithin24h ==
    [][ (LoadStep /\ IsLoadCall /\ ~call.raised /\ now - call.at < 24) =>
            /\ call'.requested = << >>
            /\ BothReadable => call'.valid_symbols = call.valid_symbols ]_vars

\* C25 amended: freshness is per file.  After a call returns without error
\* both cached files exist and are less than 24 hours old; a call made while
\* both files are less than 24 hours old performs no download, leaves the
\* files as they are and, the files being readable, returns the set the
\* previous call returned; a call made when nasdaqlisted.txt is absent or 24
\* hours old requests it, and one made when otherlisted.txt is requests it
\* unless the request for nasdaqlisted.txt failed in that call.
C25_FreshUntilAge24 ==
    [][ LoadStep =>
            /\ ~call'.raised =>
                   \A f \in FILES :
                       cache_files'[f].exists /\ now - cache_files'[f].mtime < 24
            /\ (\A f \in FILES : FreshNow(f)) =>
                   /\ call'.requested = << >>
                   /\ ~call'.raised
                   /\ cache_files' = cache_files
                   /\ (IsLoadCall /\ ~call.raised /\ BothReadable)
                          => call'.valid_symbols = call.valid_symbols
            /\ ~FreshNow(NASDAQ_FILE) =>
                   \E k \in 1..Len(call'.requested) : call'.requested[k] = NASDAQ_FILE
            /\ (~FreshNow(OTHER_FILE) /\ call'.failed # NASDAQ_FILE) =>
                   \E k \in 1..Len(call'.requested) : call'.requested[k] = OTHER_FILE ]_vars

\* a later call found both files fresh, requested nothing and returned a set
C25_Witness ==
    /\ call.op = "_load_symbol_masters" /\ ~call.raised
    /\ call.requested = << >>
    /\ \A f \in FILES : call.before[f].exists /\ call.before[f].mtime < call.at
    /\ AllReadOk(call)
    /\ call.valid_symbols # {}

\* the orders the posts of the batch can be given in
Reorderings ==
    { [i \in 1..Len(posts) |-> posts[perm[i]]] :
        perm \in { f \in [1..Len(posts) -> 1..Len(posts)] :
                     \A i, j \in 1..Len(posts) : i # j => f[i] # f[j] } }

\* the key-wise sum of two mappings
KeywiseSum(a, b) ==
    [t \in DOMAIN a \cup DOMAIN b |->
        (IF t \in DOMAIN a THEN a[t] ELSE 0) + (IF t \in DOMAIN b THEN b[t] ELSE 0)]

\* what extract_valid_tickers gives for a batch under the allow-list of the call
ResultFor(batch) == CountPosts(batch, 1, call.valid_symbols, EmptyDict)

\* C26: under the allow-list of the call, the mapping extract_valid_tickers
\* returns is the one it gives for the same posts in any other order, and
\* for every split of the batch in two it is the key-wise sum of the mappings
\* of the two parts.
C26_OrderFreeAndAdditive ==
    IsExtractReturn =>
        /\ \A batch \in Reorderings : call.result = ResultFor(batch)
        /\ \A k \in 0..Len(posts) :
               call.result = KeywiseSum(ResultFor(SubSeq(posts, 1, k)),
                                        ResultFor(SubSeq(posts, k + 1, Len(posts))))

\* two different posts that share a symbol, counted once for each post
C26_Witness ==
    /\ IsExtractReturn
    /\ Len(posts) = 2 /\ posts[1] # posts[2]
    /\ "AAPL" \in DOMAIN call.result /\ call.result["AAPL"] = 2
    /\ "TSLA" \in DOMAIN call.result /\ call.result["TSLA"] = 1

IsFetchCall == call.op = "fetch_posts"

\* the keys of the calls explored, as the f-string writes them
CallKeyOf(subreddit, window_days) ==
    IF subreddit = "thetagang"
    THEN (IF window_days = 7 THEN "thetagang_1_7" ELSE "thetagang_1_30")
    ELSE (IF window_days = 7 THEN "options_1_7" ELSE "options_1_30")

CallKey == cache_key(call.subreddit, call.limit, call.window_days)
CacheHit == CallKey \in DOMAIN call.before

\* the submissions the call was served, top listing first
Served == call.top \o call.hot

\* the first position of Served that holds the id
FirstServed(id) ==
    CHOOSE k \in 1..Len(Served) :
        /\ Served[k].id = id
        /\ \A j \in 1..(k - 1) : Served[j].id # id

C23_CachedUntilCleared ==
    /\ IsFetchCall =>
           /\ CacheHit =>
                  /\ call.requests = << >>
                  /\ ~call.raised
                  /\ call.result = call.before[CallKey]
                  /\ _posts_cache = call.before
           /\ ~CacheHit => Len(call.requests) >= 1
           /\ call.raised => _posts_cache = call.before
           /\ (~CacheHit /\ ~call.raised) =>
                  /\ DOMAIN _posts_cache = DOMAIN call.before \cup {CallKey}
                  /\ _posts_cache[CallKey] = call.result
                  /\ \A k \in DOMAIN call.before : _posts_cache[k] = call.before[k]
           /\ ~call.raised =>
                  \A i \in 1..Len(call.result) :
                      At(call.result[i].permalink, 1, "/r/" \o call.subreddit \o "/")
    /\ call.op = "clear_cache" => DOMAIN _posts_cache = {}
    /\ \A subreddit \in CacheSubreddits, window_days \in CacheWindows :
           cache_key(subreddit, 1, window_days) = CallKeyOf(subreddit, window_days)

\* a second call with the same key was answered from the cache while two
\* other keys were cached as well
C23_Witness ==
    /\ IsFetchCall /\ CacheHit /\ ~call.raised
    /\ call.requests = << >>
    /\ Len(call.result) = 2
    /\ Cardinality(DOMAIN _posts_cache) = 3
====
